---- MODULE Spec2Model ----
(***************************************************************************)
(* Model of the envmanager package of jaws (pkg/envmanager): the EnvConfig *)
(* with its documents, Prepare, Process and Write, over a small file       *)
(* system.  Go strings are TLA+ strings; the helpers of the strings and    *)
(* path/filepath packages are defined on them character by character.      *)
(***************************************************************************)
EXTENDS Integers, Sequences, FiniteSets, TLC

(***************************************************************************)
(* Bounds of the model                                                     *)
(***************************************************************************)
\* number of AddEnvConfig calls made by the caller
MaxDocs == 2
\* documents an EnvConfig may hold (registered plus included)
MaxEnv == 3
\* nested Prepare calls unfolded one by one
MaxDepth == 3
\* seconds the wall clock may advance
MaxTime == 1
\* Process calls the caller makes
MaxProcess == 2
\* Write calls the caller makes
MaxWrites == 2
\* length of the strings handed to the context functions and to CompareStrings
MaxStr == 3

(***************************************************************************)
(* Go string helpers                                                       *)
(***************************************************************************)
Char(s, i) == SubSeq(s, i, i)

HasPrefix(s, p) == Len(p) <= Len(s) /\ SubSeq(s, 1, Len(p)) = p

HasSuffix(s, p) == Len(p) <= Len(s) /\ SubSeq(s, Len(s) - Len(p) + 1, Len(s)) = p

TrimPrefix(s, p) == IF HasPrefix(s, p) THEN SubSeq(s, Len(p) + 1, Len(s)) ELSE s

TrimSuffix(s, p) == IF HasSuffix(s, p) THEN SubSeq(s, 1, Len(s) - Len(p)) ELSE s

\* strings.Index, 1-based; 0 when sub does not occur at or after position i
RECURSIVE IndexFrom(_, _, _)
IndexFrom(s, sub, i) ==
    IF i + Len(sub) - 1 > Len(s) THEN 0
    ELSE IF SubSeq(s, i, i + Len(sub) - 1) = sub THEN i
    ELSE IndexFrom(s, sub, i + 1)

Contains(s, sub) == IndexFrom(s, sub, 1) # 0

\* strings.ReplaceAll for a non-empty old
RECURSIVE ReplaceAll(_, _, _)
ReplaceAll(s, old, new) ==
    LET i == IndexFrom(s, old, 1)
    IN IF i = 0 THEN s
       ELSE SubSeq(s, 1, i - 1) \o new \o ReplaceAll(SubSeq(s, i + Len(old), Len(s)), old, new)

LowerLetters == "abcdefghijklmnopqrstuvwxyz"

UpperLetters == "ABCDEFGHIJKLMNOPQRSTUVWXYZ"

UpperChar(c) ==
    IF \E i \in 1..26 : Char(LowerLetters, i) = c
    THEN Char(UpperLetters, CHOOSE i \in 1..26 : Char(LowerLetters, i) = c)
    ELSE c

LowerChar(c) ==
    IF \E i \in 1..26 : Char(UpperLetters, i) = c
    THEN Char(LowerLetters, CHOOSE i \in 1..26 : Char(UpperLetters, i) = c)
    ELSE c

RECURSIVE ToUpper(_)
ToUpper(s) == IF s = "" THEN "" ELSE UpperChar(Char(s, 1)) \o ToUpper(SubSeq(s, 2, Len(s)))

RECURSIVE ToLower(_)
ToLower(s) == IF s = "" THEN "" ELSE LowerChar(Char(s, 1)) \o ToLower(SubSeq(s, 2, Len(s)))

\* strings.TrimRight(s, "\n")
RECURSIVE TrimRightNL(_)
TrimRightNL(s) == IF HasSuffix(s, "\n") THEN TrimRightNL(SubSeq(s, 1, Len(s) - 1)) ELSE s

IsSpace(c) == c \in {" ", "\t", "\n", "\r"}

RECURSIVE TrimSpace(_)
TrimSpace(s) ==
    IF s = "" THEN ""
    ELSE IF IsSpace(Char(s, 1)) THEN TrimSpace(SubSeq(s, 2, Len(s)))
    ELSE IF IsSpace(Char(s, Len(s))) THEN TrimSpace(SubSeq(s, 1, Len(s) - 1))
    ELSE s

RECURSIVE Repeat(_, _)
Repeat(s, n) == IF n <= 0 THEN "" ELSE s \o Repeat(s, n - 1)

\* position of the last occurrence of the one-character string c in s, 0 if none
RECURSIVE LastIndexChar(_, _, _)
LastIndexChar(s, c, i) ==
    IF i = 0 THEN 0 ELSE IF Char(s, i) = c THEN i ELSE LastIndexChar(s, c, i - 1)

\* filepath.Base for the slash-separated paths of the model (no trailing slash)
Base(p) == IF p = "" THEN "." ELSE SubSeq(p, LastIndexChar(p, "/", Len(p)) + 1, Len(p))

\* filepath.Ext: the suffix of the last element beginning at its final dot
Ext(p) ==
    LET b == SubSeq(p, LastIndexChar(p, "/", Len(p)) + 1, Len(p))
        d == LastIndexChar(b, ".", Len(b))
    IN IF d = 0 THEN "" ELSE SubSeq(b, d, Len(b))

(***************************************************************************)
(* Expressions of a config document (hcl.Expression) and their values      *)
(***************************************************************************)
\* a quoted string literal
Lit(s) == [t |-> "lit", s |-> s, rel |-> <<>>]

\* a numeric literal
Num(s) == [t |-> "num", s |-> s, rel |-> <<>>]

\* true / false
BoolLit(s) == [t |-> "bool", s |-> s, rel |-> <<>>]

\* a traversal root.step.step...; a step is an attribute access or an index
Ref(root, rel) == [t |-> "ref", s |-> root, rel |-> rel]

\* a function call fn(args...)
Call(fn, args) == [t |-> "call", s |-> fn, rel |-> <<>>, args |-> args]

TraverseAttr(n) == [k |-> "attr", name |-> n]

TraverseIndex(n) == [k |-> "index", name |-> n]

SECRET_KEY == "secret"

LOCALS_KEY == "var"

FILE_FUNC_SUCCESS == "DataWrittenToFileSuccessfully"

INTERPRETER_SHEBANG == "#!jaws"

LABEL_PADDING == 10

\* cty values: a type tag and the text of the value
StringVal(s) == [ty |-> "string", s |-> s]

NumberVal(s) == [ty |-> "number", s |-> s]

BoolVal(s) == [ty |-> "bool", s |-> s]

\* the value hcl yields next to an error diagnostic
DynamicVal == [ty |-> "dynamic", s |-> ""]

\* hcl.Expression.Variables(): the traversals an expression reads, those of the
\* arguments of a function call included
RECURSIVE Variables(_)
RECURSIVE VariablesOfArgs(_, _)
Variables(expr) ==
    IF expr.t = "ref" THEN <<expr>>
    ELSE IF expr.t = "call" THEN VariablesOfArgs(expr.args, 1)
    ELSE <<>>

VariablesOfArgs(args, k) ==
    IF k > Len(args) THEN <<>> ELSE Variables(args[k]) \o VariablesOfArgs(args, k + 1)

(***************************************************************************)
(* The files on disk the commands read: config documents and directories   *)
(***************************************************************************)
\* the working directory of the process
Cwd == "/w"

\* absolute form of a path (filepath.Abs without symlinks or dot-dot)
AbsPath(p) == IF HasPrefix(p, "/") THEN p ELSE Cwd \o "/" \o TrimPrefix(p, "./")

ConfigA ==
    [msg |-> "", out |-> "out.env", format |-> "", profile |-> "", filter |-> "t/",
     include |-> <<>>,
     locals |-> << [TmplVars |-> ("env" :> Lit("dev"))] >>,
     vars |-> << [TmplVars |-> ("K" :> Lit("two") @@ "D" :> Ref(SECRET_KEY, <<TraverseAttr("DB")>>))],
                 [TmplVars |-> ("D" :> Ref(SECRET_KEY, <<TraverseAttr("DB")>>) @@ "N" :> Lit("s"))] >>,
     groups |-> << [Label |-> "g", TmplVars |-> ("K" :> Lit("one"))],
                   [Label |-> "", TmplVars |-> ("N" :> Num("5"))] >>]

ConfigE ==
    [msg |-> "m", out |-> "e.env", format |-> "", profile |-> "", filter |-> "t",
     include |-> <<>>,
     locals |-> <<>>, vars |-> <<>>, groups |-> <<>>]

ConfigI ==
    [msg |-> "", out |-> "-", format |-> "json", profile |-> "p", filter |-> "",
     include |-> <<"a.jaws">>,
     locals |-> <<>>,
     vars |-> << [TmplVars |-> ("J" :> Lit("v"))] >>,
     groups |-> <<>>]

\* the example of the documentation: a local, an attribute that quotes it, a filter;
\* format and out vary
ConfigS(format, out) ==
    [msg |-> "", out |-> out, format |-> format, profile |-> "", filter |-> "testing/jaws/",
     include |-> <<>>,
     locals |-> << [TmplVars |-> ("env" :> Lit("dev"))] >>,
     vars |-> << [TmplVars |->
                     ("WHATENV_IS_THIS" :> Call("quote", <<Ref(LOCALS_KEY, <<TraverseAttr("env")>>)>>))] >>,
     groups |-> <<>>]

\* attributes that read locals: env is declared in a locals block, own as well
ConfigV ==
    [msg |-> "", out |-> "v.env", format |-> "", profile |-> "", filter |-> "testing/jaws/",
     include |-> <<>>,
     locals |-> << [TmplVars |-> ("env" :> Lit("dev") @@ "own" :> Lit("mine"))] >>,
     vars |-> << [TmplVars |-> ("E" :> Ref(LOCALS_KEY, <<TraverseAttr("env")>>)
                                @@ "O" :> Ref(LOCALS_KEY, <<TraverseAttr("own")>>))] >>,
     groups |-> << [Label |-> "g", TmplVars |-> ("G" :> Ref(LOCALS_KEY, <<TraverseAttr("env")>>))] >>]

\* an attribute that reads a key no locals block declares
ConfigR ==
    [msg |-> "", out |-> "r.env", format |-> "", profile |-> "", filter |-> "",
     include |-> <<>>,
     locals |-> <<>>,
     vars |-> << [TmplVars |-> ("R" :> Ref(LOCALS_KEY, <<TraverseAttr("region")>>))] >>,
     groups |-> <<>>]

\* an attribute whose value is the content of the secret testing/jaws/script
ConfigD ==
    [msg |-> "", out |-> "d.env", format |-> "", profile |-> "", filter |-> "testing/jaws/",
     include |-> <<>>,
     locals |-> << [TmplVars |-> ("env" :> Lit("dev"))] >>,
     vars |-> << [TmplVars |-> ("S" :> Ref(SECRET_KEY, <<TraverseAttr("SCRIPT")>>))] >>,
     groups |-> <<>>]

\* a document that includes itself
ConfigC ==
    [msg |-> "", out |-> "c.env", format |-> "", profile |-> "", filter |-> "",
     include |-> <<"c.jaws">>,
     locals |-> <<>>,
     vars |-> << [TmplVars |-> ("C" :> Lit("c"))] >>,
     groups |-> <<>>]

\* two documents that include each other
ConfigP ==
    [msg |-> "", out |-> "p.env", format |-> "", profile |-> "", filter |-> "t/",
     include |-> <<"q.jaws">>,
     locals |-> <<>>,
     vars |-> << [TmplVars |-> ("P" :> Ref(SECRET_KEY, <<TraverseAttr("PW")>>))] >>,
     groups |-> <<>>]

ConfigQ ==
    [msg |-> "", out |-> "q.env", format |-> "", profile |-> "", filter |-> "",
     include |-> <<"./p.jaws">>,
     locals |-> <<>>,
     vars |-> << [TmplVars |-> ("Q" :> Lit("q"))] >>,
     groups |-> <<>>]

\* a document that reads a secret and includes a file that does not exist
ConfigM ==
    [msg |-> "", out |-> "m.env", format |-> "", profile |-> "", filter |-> "t/",
     include |-> <<"missing.jaws">>,
     locals |-> <<>>,
     vars |-> << [TmplVars |-> ("D" :> Ref(SECRET_KEY, <<TraverseAttr("DB")>>))] >>,
     groups |-> <<>>]

\* a document that reads one secret by name and indexes into another
ConfigB ==
    [msg |-> "", out |-> "b.env", format |-> "", profile |-> "", filter |-> "t/",
     include |-> <<>>,
     locals |-> <<>>,
     vars |-> << [TmplVars |-> ("D" :> Ref(SECRET_KEY, <<TraverseAttr("DB")>>))] >>,
     groups |-> << [Label |-> "g",
                    TmplVars |-> ("L" :> Ref(SECRET_KEY, <<TraverseAttr("LIST"), TraverseIndex("0")>>))] >>]

\* a document that includes a directory
ConfigN ==
    [msg |-> "", out |-> "n.env", format |-> "", profile |-> "", filter |-> "t/",
     include |-> <<"conf">>,
     locals |-> <<>>,
     vars |-> << [TmplVars |-> ("T" :> Ref(SECRET_KEY, <<TraverseAttr("TOKEN")>>))] >>,
     groups |-> <<>>]

\* the values of format and out the documents ConfigS are written with
FormatChoices == {"", "json", "yaml", "tfvars", "env"}

OutChoices == {"s.env", "x.yaml", "x.yml", "x.json", "x.tfvars", "x"}

ScenarioFile(format, out) == "s-" \o format \o "-" \o out \o ".jaws"

ScenarioFiles == {ScenarioFile(f, o) : f \in FormatChoices, o \in OutChoices}

ScenarioDisk ==
    [p \in {"/w/" \o n : n \in ScenarioFiles} |->
        LET fo == CHOOSE fo \in FormatChoices \X OutChoices : p = "/w/" \o ScenarioFile(fo[1], fo[2])
        IN ConfigS(fo[1], fo[2])]

\* the filters and the names of the secret references the documents ConfigK are written with
KFilters == <<"t/", "t", "my_app/", "my-app/", "a/b/*">>

KNames == <<"DB", "db", "Db", "DB_PW", "API_KEY">>

\* one attribute X that reads the secret NAME below a filter
ConfigK(filter, name) ==
    [msg |-> "", out |-> "k.env", format |-> "", profile |-> "", filter |-> filter,
     include |-> <<>>,
     locals |-> <<>>,
     vars |-> << [TmplVars |-> ("X" :> Ref(SECRET_KEY, <<TraverseAttr(name)>>))] >>,
     groups |-> <<>>]

KFile(i, j) == "k" \o ToString(i) \o ToString(j) \o ".jaws"

KDisk ==
    [p \in {"/w/" \o KFile(i, j) : i \in 1..Len(KFilters), j \in 1..Len(KNames)} |->
        LET ij == CHOOSE ij \in (1..Len(KFilters)) \X (1..Len(KNames)) : p = "/w/" \o KFile(ij[1], ij[2])
        IN ConfigK(KFilters[ij[1]], KNames[ij[2]])]

\* the formats the documents ConfigNum and ConfigMix are written in
TypedFormats == {"env", "json", "tfvars", "yaml"}

\* attributes whose values are a number and a boolean, and none else
ConfigNum(format) ==
    [msg |-> "", out |-> "num.out", format |-> format, profile |-> "", filter |-> "",
     include |-> <<>>,
     locals |-> <<>>,
     vars |-> << [TmplVars |-> ("N" :> Num("5") @@ "B" :> BoolLit("true"))] >>,
     groups |-> <<>>]

\* a number in the group block, which is rendered first, and a string in the vars block
ConfigMix(format) ==
    [msg |-> "", out |-> "mix.out", format |-> format, profile |-> "", filter |-> "",
     include |-> <<>>,
     locals |-> <<>>,
     vars |-> << [TmplVars |-> ("K" :> Lit("v"))] >>,
     groups |-> << [Label |-> "", TmplVars |-> ("N" :> Num("5"))] >>]

TypedDisk ==
    [p \in {"/w/num-" \o f \o ".jaws" : f \in TypedFormats}
            \cup {"/w/mix-" \o f \o ".jaws" : f \in TypedFormats} |->
        LET f == CHOOSE f \in TypedFormats : p \in {"/w/num-" \o f \o ".jaws", "/w/mix-" \o f \o ".jaws"}
        IN IF HasPrefix(p, "/w/num-") THEN ConfigNum(f) ELSE ConfigMix(f)]

\* an attribute that writes a file with file()
ConfigF ==
    [msg |-> "", out |-> "f.env", format |-> "", profile |-> "", filter |-> "",
     include |-> <<>>,
     locals |-> <<>>,
     vars |-> << [TmplVars |-> ("KEY" :> Call("file", <<Lit("id_rsa"), Lit("key")>>))] >>,
     groups |-> <<>>]

\* attributes whose value is the content of a secret: a script that calls file(),
\* a script whose result is the interpreter marker, a note that mentions the marker
ConfigFS ==
    [msg |-> "", out |-> "fs.env", format |-> "", profile |-> "", filter |-> "t/",
     include |-> <<>>,
     locals |-> <<>>,
     vars |-> << [TmplVars |-> ("KEY" :> Ref(SECRET_KEY, <<TraverseAttr("KEYSCRIPT")>>))] >>,
     groups |-> <<>>]

ConfigSelf ==
    [msg |-> "", out |-> "self.env", format |-> "", profile |-> "", filter |-> "t/",
     include |-> <<>>,
     locals |-> <<>>,
     vars |-> << [TmplVars |-> ("W" :> Ref(SECRET_KEY, <<TraverseAttr("SELF")>>))] >>,
     groups |-> <<>>]

ConfigNote ==
    [msg |-> "", out |-> "note.env", format |-> "", profile |-> "", filter |-> "t/",
     include |-> <<>>,
     locals |-> <<>>,
     vars |-> << [TmplVars |-> ("NOTE" :> Ref(SECRET_KEY, <<TraverseAttr("NOTE")>>))] >>,
     groups |-> <<>>]

\* an attribute that reads the variable loop of the environment
ConfigW ==
    [msg |-> "", out |-> "w.env", format |-> "", profile |-> "", filter |-> "",
     include |-> <<>>,
     locals |-> <<>>,
     vars |-> << [TmplVars |-> ("W" :> Ref(LOCALS_KEY, <<TraverseAttr("loop")>>))] >>,
     groups |-> <<>>]

\* a document whose out file lies in a directory below the config file
ConfigSub ==
    [msg |-> "", out |-> "sub/.env", format |-> "", profile |-> "", filter |-> "",
     include |-> <<>>,
     locals |-> <<>>,
     vars |-> << [TmplVars |-> ("K" :> Lit("v"))] >>,
     groups |-> <<>>]

\* a document with an absolute out file
ConfigAbs ==
    [msg |-> "", out |-> "/w/sub/abs.env", format |-> "", profile |-> "", filter |-> "",
     include |-> <<>>,
     locals |-> <<>>,
     vars |-> << [TmplVars |-> ("K" :> Lit("v"))] >>,
     groups |-> <<>>]

\* string literals that hold the interpreter marker after their first characters
MarkerTexts == <<"see #!jaws docs", "run\n#!jaws", "a\n#!jaws\nb", "#!jaws\nplain">>

ConfigL(text) ==
    [msg |-> "", out |-> "l.env", format |-> "", profile |-> "", filter |-> "",
     include |-> <<>>,
     locals |-> <<>>,
     vars |-> << [TmplVars |-> ("NOTE" :> Lit(text))] >>,
     groups |-> <<>>]

LFile(k) == "l" \o ToString(k) \o ".jaws"

LDisk == [p \in {"/w/" \o LFile(k) : k \in 1..Len(MarkerTexts)} |->
             ConfigL(MarkerTexts[CHOOSE k \in 1..Len(MarkerTexts) : p = "/w/" \o LFile(k)])]

\* regular files holding a config document, by absolute path
ConfigDisk ==
    ("/w/a.jaws" :> ConfigA) @@ ("/w/e.jaws" :> ConfigE) @@ ("/w/i.jaws" :> ConfigI)
        @@ ("/w/v.jaws" :> ConfigV) @@ ("/w/r.jaws" :> ConfigR) @@ ("/w/d.jaws" :> ConfigD)
        @@ ("/w/c.jaws" :> ConfigC) @@ ("/w/p.jaws" :> ConfigP) @@ ("/w/q.jaws" :> ConfigQ)
        @@ ("/w/m.jaws" :> ConfigM) @@ ("/w/b.jaws" :> ConfigB) @@ ("/w/n.jaws" :> ConfigN)
        @@ ("/w/f.jaws" :> ConfigF) @@ ("/w/fs.jaws" :> ConfigFS) @@ ("/w/self.jaws" :> ConfigSelf)
        @@ ("/w/note.jaws" :> ConfigNote) @@ ("/w/w.jaws" :> ConfigW)
        @@ ("/w/s.jaws" :> ConfigSub) @@ ("/w/t.jaws" :> ConfigAbs)
        @@ KDisk @@ TypedDisk @@ LDisk
        @@ ScenarioDisk

\* directories, with the names of their entries in the order os.ReadDir lists them
DirDisk == ("/w/conf" :> <<"a.jaws">>) @@ ("/w/sub" :> <<>>)

\* the paths the caller hands to AddEnvConfig
AddArgs == {"a.jaws", "e.jaws", "i.jaws", "conf", "missing.jaws"}

IsConfigFile(p) == AbsPath(p) \in DOMAIN ConfigDisk

IsDirectory(p) == AbsPath(p) \in DOMAIN DirDisk

StatOK(p) == IsConfigFile(p) \/ IsDirectory(p)

(***************************************************************************)
(* EnvHCL, the document                                                    *)
(***************************************************************************)
\* io.Reader over strings.NewReader(s): the string and the bytes consumed
NilReader == [nil |-> TRUE, s |-> "", i |-> 0]

NewReader(s) == [nil |-> FALSE, s |-> s, i |-> 0]

NewEnvHCL(file) ==
    [Prepared |-> FALSE, Processed |-> FALSE, Reader |-> NilReader, ConfigFile |-> file,
     Message |-> "", OutFile |-> "", OutFormat |-> "", Profile |-> "", Filter |-> "",
     Locals |-> <<>>, GroupedVars |-> <<>>, GroupedLabeledVars |-> <<>>]

\* utils.FormatPrefixString: make the prefix end in "/*"
FormatPrefixString(prefix) ==
    LET lastChar == Char(prefix, Len(prefix))
    IN CASE lastChar = "*" ->
                IF Char(prefix, Len(prefix) - 1) # "/"
                THEN TrimSuffix(prefix, "*") \o "/*"
                ELSE prefix
         [] lastChar = "/" -> prefix \o "*"
         [] OTHER -> prefix \o "/*"

RECURSIVE contains(_, _)
contains(s, e) == IF s = <<>> THEN FALSE ELSE IF Head(s) = e THEN TRUE ELSE contains(Tail(s), e)

(***************************************************************************)
(* State                                                                   *)
(***************************************************************************)
VARIABLES
    Env,          \* EnvConfig.Env: the documents, in registration order
    SecretIDs,    \* EnvConfig.SecretIDs
    Options,      \* EnvConfig.Options
    callerOpts,   \* the Options value the caller handed to InitEnv
    fs,           \* the output files and backups on disk: absolute path -> content, modtime
    now,          \* the wall clock, in seconds
    last,         \* the outcome of the most recent call
    halted,       \* the process ended (panic or log.Fatal)
    calls,        \* the Process and Write calls made so far
    osEnv,        \* os.Environ(): the environment of the process, KEY=value entries
    fcall,        \* the most recent application of a context function or of CompareStrings
    prep          \* the Prepare call in progress: the identifier lists of the calls it nests

vars == <<Env, SecretIDs, Options, callerOpts, fs, now, last, halted, calls, osEnv, fcall, prep>>

NoCall == [op |-> "none", err |-> "", doc |-> 0, log |-> <<>>, skipped |-> 0]

\* no function was applied yet
NoFunc == [fn |-> "none", args |-> <<>>, res |-> "", err |-> "", done |-> FALSE]

\* no Prepare call is running; stack holds the secretIds of the calls that wait
\* for the call they nest, the innermost first
NoPrepare == [active |-> FALSE, stack |-> <<>>]

(***************************************************************************)
(* AddEnvConfig, SearchDir                                                 *)
(***************************************************************************)
\* variant: a file the list already holds is not registered again
AddEnvConfigToOnce(E, file) ==
    IF ~StatOK(file) THEN [Env |-> E, err |-> file \o " not found in current directory"]
    ELSE IF IsDirectory(file)
    THEN [Env |-> E, err |-> file \o " is a directory and can't be loaded as an env file"]
    ELSE IF \E i \in 1..Len(E) : AbsPath(E[i].ConfigFile) = AbsPath(file) THEN [Env |-> E, err |-> ""]
    ELSE [Env |-> Append(E, NewEnvHCL(file)), err |-> ""]

\* EnvConfig.AddEnvConfig on a list of documents: the new list and the error
AddEnvConfigTo(E, file) ==
    IF ~StatOK(file) THEN [Env |-> E, err |-> file \o " not found in current directory"]
    ELSE IF IsDirectory(file)
    THEN [Env |-> E, err |-> file \o " is a directory and can't be loaded as an env file"]
    ELSE [Env |-> Append(E, NewEnvHCL(file)), err |-> ""]

\* EnvConfig.SearchDir: every entry whose name contains ".jaws" is stat'ed by its
\* bare name (relative to the working directory) and registered under that name
RECURSIVE SearchDirTo(_, _, _)
SearchDirTo(E, entries, k) ==
    IF k > Len(entries) THEN [Env |-> E, err |-> ""]
    ELSE IF ~Contains(entries[k], ".jaws") THEN SearchDirTo(E, entries, k + 1)
    ELSE IF ~StatOK(entries[k]) THEN [Env |-> E, err |-> "panic"]
    ELSE IF IsDirectory(entries[k]) THEN SearchDirTo(E, entries, k + 1)
    ELSE SearchDirTo(Append(E, NewEnvHCL(entries[k])), entries, k + 1)

(***************************************************************************)
(* Prepare                                                                 *)
(***************************************************************************)
\* all orders in which a Go map with the key set S can be iterated
Perms(S) ==
    {p \in [1..Cardinality(S) -> S] : \A a, b \in 1..Cardinality(S) : a # b => p[a] # p[b]}

\* filepath.Dir of a slash-separated path without trailing slash
DirOf(p) ==
    LET k == LastIndexChar(p, "/", Len(p))
    IN IF k = 0 THEN "." ELSE IF k = 1 THEN "/" ELSE SubSeq(p, 1, k - 1)

\* the identifier Prepare derives from one step of a secret traversal
SecretIdOf(filter, name) == ReplaceAll(TrimSuffix(filter, "*") \o ToLower(name), "_", "-")

\* a traversal rooted at secret with a step that is not an attribute access
BadTraversal(expr) ==
    \E k \in 1..Len(Variables(expr)) :
        /\ Variables(expr)[k].s = SECRET_KEY
        /\ \E j \in 1..Len(Variables(expr)[k].rel) : Variables(expr)[k].rel[j].k # "attr"

RECURSIVE IdsOfRel(_, _, _)
IdsOfRel(rel, filter, j) ==
    IF j > Len(rel) THEN <<>>
    ELSE <<SecretIdOf(filter, rel[j].name)>> \o IdsOfRel(rel, filter, j + 1)

RECURSIVE IdsOfTraversals(_, _, _)
IdsOfTraversals(trs, filter, k) ==
    IF k > Len(trs) THEN <<>>
    ELSE (IF trs[k].s = SECRET_KEY THEN IdsOfRel(trs[k].rel, filter, 1) ELSE <<>>)
         \o IdsOfTraversals(trs, filter, k + 1)

\* identifiers of one block's attributes visited in the order p
RECURSIVE IdsOfAttrs(_, _, _, _)
IdsOfAttrs(attrs, p, filter, k) ==
    IF k > Len(p) THEN <<>>
    ELSE IdsOfTraversals(Variables(attrs[p[k]]), filter, 1) \o IdsOfAttrs(attrs, p, filter, k + 1)

\* the identifier lists Prepare can collect from a list of blocks
RECURSIVE IdSeqsOfBlocks(_, _, _)
IdSeqsOfBlocks(blocks, filter, b) ==
    IF b > Len(blocks) THEN {<<>>}
    ELSE {h \o t : h \in {IdsOfAttrs(blocks[b].TmplVars, p, filter, 1) :
                              p \in Perms(DOMAIN blocks[b].TmplVars)},
                   t \in IdSeqsOfBlocks(blocks, filter, b + 1)}

BlocksBad(blocks) ==
    \E b \in 1..Len(blocks) : \E n \in DOMAIN blocks[b].TmplVars : BadTraversal(blocks[b].TmplVars[n])

\* the out path Prepare gives a document
PreparedOutFile(configFile, out) ==
    LET dir == TrimSuffix(configFile, Base(configFile))
    IN IF HasPrefix(out, "./") THEN dir \o TrimPrefix(out, "./")
       ELSE IF HasPrefix(out, "..") THEN dir \o TrimPrefix(out, "./")
       ELSE IF HasPrefix(out, "/") THEN out
       ELSE dir \o out

\* the include loop of one document: st is [Env, ids, includeCount, err]
RECURSIVE IncludeLoop(_, _, _, _)
IncludeLoop(st, includes, k, configFile) ==
    IF k > Len(includes) THEN st
    ELSE LET include ==
                 IF ~HasPrefix(includes[k], "/")
                 THEN (IF DirOf(configFile) = "." THEN Cwd ELSE AbsPath(DirOf(configFile)))
                      \o "/" \o TrimPrefix(includes[k], "./")
                 ELSE includes[k]
         IN IF ~StatOK(include) THEN [st EXCEPT !.err = include \o " was not found"]
            ELSE LET r == IF IsDirectory(include)
                          THEN SearchDirTo(st.Env, DirDisk[AbsPath(include)], 1)
                          ELSE AddEnvConfigTo(st.Env, include)
                 IN IF r.err # "" THEN [st EXCEPT !.Env = r.Env, !.err = r.err]
                    ELSE IncludeLoop([st EXCEPT !.Env = r.Env, !.includeCount = @ + 1],
                                     includes, k + 1, configFile)

\* the body of Prepare's loop for document i: the states it can end in
PrepareOne(st, i, opts) ==
    LET env == st.Env[i]
    IN IF env.Prepared THEN {st}
       ELSE IF ~IsConfigFile(env.ConfigFile) THEN {[st EXCEPT !.err = "no config file found"]}
       ELSE
       LET envHCL == ConfigDisk[AbsPath(env.ConfigFile)]
           filter == IF envHCL.filter # ""
                     THEN (IF opts.FilterOverride # ""
                           THEN FormatPrefixString(opts.FilterOverride)
                           ELSE FormatPrefixString(envHCL.filter))
                     ELSE env.Filter
           env1 == [env EXCEPT
                      !.OutFile = PreparedOutFile(env.ConfigFile, envHCL.out),
                      !.OutFormat = envHCL.format,
                      !.Message = envHCL.msg,
                      !.Profile = envHCL.profile,
                      !.GroupedVars = @ \o envHCL.vars,
                      !.GroupedLabeledVars = @ \o envHCL.groups,
                      !.Locals = (@ \o envHCL.locals) \o envHCL.locals,
                      !.Filter = filter,
                      !.Prepared = TRUE]
           st1 == [st EXCEPT !.Env[i] = env1]
       IN IF BlocksBad(envHCL.vars) \/ BlocksBad(envHCL.groups)
          THEN {[st1 EXCEPT !.err = "unknown type"]}
          ELSE {IncludeLoop([st1 EXCEPT !.ids = (@ \o gv) \o glv], envHCL.include, 1, env.ConfigFile) :
                    gv \in IdSeqsOfBlocks(envHCL.vars, filter, 1),
                    glv \in IdSeqsOfBlocks(envHCL.groups, filter, 1)}

RECURSIVE PrepareLoop(_, _, _, _)
PrepareLoop(st, i, n, opts) ==
    IF i > n \/ st.err # "" THEN {st}
    ELSE UNION {PrepareLoop(s2, i + 1, n, opts) : s2 \in PrepareOne(st, i, opts)}

\* variant: the collected identifiers are appended without the membership test
AddIdsUnchecked(S, ids) == S \o ids

\* the final loop of Prepare: append the identifiers SecretIDs does not hold yet
RECURSIVE AddIds(_, _)
AddIds(S, ids) ==
    IF ids = <<>> THEN S
    ELSE AddIds(IF ~contains(S, Head(ids)) THEN Append(S, Head(ids)) ELSE S, Tail(ids))

\* EnvConfig.Prepare: the outcomes [Env, SecretIDs, err] of one call; a list
\* grown past MaxEnv ends the unfolding with the error "unbounded"
RECURSIVE PrepareCall(_, _, _)
PrepareCall(E, S, opts) ==
    IF Len(E) > MaxEnv THEN {[Env |-> E, SecretIDs |-> S, err |-> "unbounded"]}
    ELSE UNION {
        IF st.err # "" THEN {[Env |-> st.Env, SecretIDs |-> S, err |-> st.err]}
        ELSE IF st.includeCount > 0
        THEN {IF r.err # "" THEN r
              ELSE [Env |-> r.Env, SecretIDs |-> AddIds(r.SecretIDs, st.ids), err |-> ""] :
                  r \in PrepareCall(st.Env, S, opts)}
        ELSE {[Env |-> st.Env, SecretIDs |-> AddIds(S, st.ids), err |-> ""]} :
            st \in PrepareLoop([Env |-> E, ids |-> <<>>, includeCount |-> 0, err |-> ""],
                               1, Len(E), opts)}

\* the return of the nested calls: each waiting call appends its secretIds
RECURSIVE Unwind(_, _)
Unwind(S, stack) == IF stack = <<>> THEN S ELSE Unwind(AddIds(S, Head(stack)), Tail(stack))

(***************************************************************************)
(* Evaluation context (createEnvHCLContext)                                *)
(***************************************************************************)
ENV_PREFIX == "JAWS_"

\* os.Environ() of a shell that exports no JAWS_ variable
Environ == <<"HOME=/w">>

\* decodeEnvVars: the entries whose key carries ENV_PREFIX, with the prefix stripped
RECURSIVE decodeEnvVars(_, _)
decodeEnvVars(environ, k) ==
    IF k > Len(environ) THEN <<>>
    ELSE LET eq == IndexFrom(environ[k], "=", 1)
             key == SubSeq(environ[k], 1, eq - 1)
             value == SubSeq(environ[k], eq + 1, Len(environ[k]))
             rest == decodeEnvVars(environ, k + 1)
         IN IF eq # 0 /\ HasPrefix(key, ENV_PREFIX) /\ TrimPrefix(key, ENV_PREFIX) \notin DOMAIN rest
            THEN (TrimPrefix(key, ENV_PREFIX) :> StringVal(value)) @@ rest
            ELSE rest

\* hcl: the value of an object after the steps rel[j..]
RECURSIVE Traverse(_, _, _)
Traverse(val, rel, j) ==
    IF j > Len(rel) THEN [err |-> "", val |-> val]
    ELSE IF val.ty = "dynamic" THEN [err |-> "", val |-> DynamicVal]
    ELSE IF val.ty # "object" THEN [err |-> "Unsupported attribute", val |-> DynamicVal]
    ELSE IF rel[j].name \notin DOMAIN val.attrs
    THEN [err |-> IF rel[j].k = "attr" THEN "Unsupported attribute" ELSE "Invalid index",
          val |-> DynamicVal]
    ELSE Traverse(val.attrs[rel[j].name], rel, j + 1)

ObjectVal(attrs) == [ty |-> "object", s |-> "", attrs |-> attrs]

(***************************************************************************)
(* Context functions (contextFuncs)                                        *)
(***************************************************************************)
\* strings.Join(out, " ")
RECURSIVE JoinArgs(_, _)
JoinArgs(out, k) ==
    IF k > Len(out) THEN ""
    ELSE IF k = Len(out) THEN out[k]
    ELSE out[k] \o " " \o JoinArgs(out, k + 1)

\* strconv.Quote of one byte: quote, backslash and control characters are escaped
QuoteChar(c) ==
    CASE c = "\"" -> "\\\""
      [] c = "\\" -> "\\\\"
      [] c = "\n" -> "\\n"
      [] c = "\t" -> "\\t"
      [] c = "\r" -> "\\r"
      [] OTHER -> c

RECURSIVE QuoteBody(_)
QuoteBody(s) == IF s = "" THEN "" ELSE QuoteChar(Char(s, 1)) \o QuoteBody(SubSeq(s, 2, Len(s)))

\* fmt.Sprintf("%q", s) for the printable ASCII and the control characters above
GoQuote(s) == "\"" \o QuoteBody(s) \o "\""

\* quote(content...)
quote(args) == GoQuote(JoinArgs(args, 1))

\* unquote(content...): one leading and one trailing double quote are cut off
unquote(args) ==
    LET outStr == JoinArgs(args, 1)
        s1 == IF Len(outStr) > 0 /\ Char(outStr, 1) = "\"" THEN SubSeq(outStr, 2, Len(outStr)) ELSE outStr
    IN IF Len(s1) > 0 /\ Char(s1, Len(s1)) = "\"" THEN SubSeq(s1, 1, Len(s1) - 1) ELSE s1

IsLetter(c) == \E i \in 1..26 : c = Char(LowerLetters, i) \/ c = Char(UpperLetters, i)

IsDigit(c) == c \in {"0", "1", "2", "3", "4", "5", "6", "7", "8", "9"}

IsAlNum(c) == IsLetter(c) \/ IsDigit(c)

IsLabelChar(c) == IsAlNum(c) \/ c \in {"-", "_"}

IsAlNumDash(c) == IsAlNum(c) \/ c = "-"

\* the last class of the expression holds the letters and the line break
IsLetterOrBreak(c) == IsLetter(c) \/ c = "\n"

\* validateDomainName: the regular expression, matched part by part; no class
\* of the expression holds a dot, so the dots of the domain separate its parts
validateDomainName(domain) ==
    LET p == IndexFrom(domain, ".", 1)
        first == SubSeq(domain, 1, p - 1)
        rest == SubSeq(domain, p + 1, Len(domain))
        q == IndexFrom(rest, ".", 1)
        second == SubSeq(rest, 1, q - 1)
        third == SubSeq(rest, q + 1, Len(rest))
        firstOK ==
            \/ Len(first) = 1 /\ IsLetter(first)
            \/ Len(first) = 2 /\ IsLetter(Char(first, 1)) /\ IsAlNum(Char(first, 2))
            \/ Len(first) = 2 /\ IsDigit(Char(first, 1)) /\ IsLetter(Char(first, 2))
            \/ /\ Len(first) >= 3 /\ Len(first) <= 63
               /\ IsAlNum(Char(first, 1)) /\ IsAlNum(Char(first, Len(first)))
               /\ \A j \in 2..(Len(first) - 1) : IsLabelChar(Char(first, j))
        restOK ==
            \/ Len(rest) >= 2 /\ Len(rest) <= 6 /\ (\A j \in 1..Len(rest) : IsLetter(Char(rest, j)))
            \/ /\ q # 0
               /\ Len(second) >= 2 /\ Len(second) <= 30 /\ (\A j \in 1..Len(second) : IsAlNumDash(Char(second, j)))
               /\ Len(third) >= 2 /\ Len(third) <= 3 /\ (\A j \in 1..Len(third) : IsLetterOrBreak(Char(third, j)))
    IN p # 0 /\ firstOK /\ restOK

\* the last address of the list that has an IPv4 form, the name when there is none
RECURSIVE LastIPv4(_, _)
LastIPv4(addr, retAddr) ==
    IF addr = <<>> THEN retAddr
    ELSE LastIPv4(Tail(addr), IF Head(addr).v4 THEN Head(addr).s ELSE retAddr)

\* resolve(hostname); lookup is what net.LookupIP answers: [err, addr]
resolve(fqdn, lookup) ==
    IF ~validateDomainName(fqdn) /\ fqdn # "localhost"
    THEN [err |-> "invalid FQDN: " \o fqdn, res |-> ""]
    ELSE IF lookup.err THEN [err |-> "unknown FQDN: " \o fqdn, res |-> ""]
    ELSE [err |-> "", res |-> LastIPv4(lookup.addr, fqdn)]

\* the index of the first character at or after i that is no white space
RECURSIVE SkipSpace(_, _)
SkipSpace(s, i) == IF i <= Len(s) /\ IsSpace(Char(s, i)) THEN SkipSpace(s, i + 1) ELSE i

RECURSIVE SkipDigits(_, _)
SkipDigits(s, i) == IF i <= Len(s) /\ IsDigit(Char(s, i)) THEN SkipDigits(s, i + 1) ELSE i

NoObject == [ok |-> FALSE, members |-> <<>>]

\* the JSON value that starts at i: a string without escapes, an integer,
\* true, false or null
JSONValue(s, i) ==
    LET rest == SubSeq(s, i, Len(s))
        close == IndexFrom(s, "\"", i + 1)
    IN IF i > Len(s) THEN [ok |-> FALSE, ty |-> "", v |-> "", next |-> i]
       ELSE IF Char(s, i) = "\""
       THEN IF close = 0 THEN [ok |-> FALSE, ty |-> "", v |-> "", next |-> i]
            ELSE [ok |-> TRUE, ty |-> "string", v |-> SubSeq(s, i + 1, close - 1), next |-> close + 1]
       ELSE IF HasPrefix(rest, "null") THEN [ok |-> TRUE, ty |-> "null", v |-> "", next |-> i + 4]
       ELSE IF HasPrefix(rest, "true") THEN [ok |-> TRUE, ty |-> "bool", v |-> "true", next |-> i + 4]
       ELSE IF HasPrefix(rest, "false") THEN [ok |-> TRUE, ty |-> "bool", v |-> "false", next |-> i + 5]
       ELSE IF IsDigit(Char(s, i))
       THEN [ok |-> TRUE, ty |-> "number", v |-> SubSeq(s, i, SkipDigits(s, i) - 1),
             next |-> SkipDigits(s, i)]
       ELSE [ok |-> FALSE, ty |-> "", v |-> "", next |-> i]

\* the members of a JSON object from the member that starts at i
RECURSIVE JSONMembers(_, _, _)
JSONMembers(s, i, acc) ==
    LET k == JSONValue(s, i)
        colon == SkipSpace(s, k.next)
        v == JSONValue(s, SkipSpace(s, colon + 1))
        sep == SkipSpace(s, v.next)
        more == Append(acc, [k |-> k.v, ty |-> v.ty, v |-> v.v])
    IN IF ~k.ok \/ k.ty # "string" THEN NoObject
       ELSE IF colon > Len(s) \/ Char(s, colon) # ":" THEN NoObject
       ELSE IF ~v.ok \/ sep > Len(s) THEN NoObject
       ELSE IF Char(s, sep) = "," THEN JSONMembers(s, SkipSpace(s, sep + 1), more)
       ELSE IF Char(s, sep) = "}" /\ SkipSpace(s, sep + 1) > Len(s) THEN [ok |-> TRUE, members |-> more]
       ELSE NoObject

\* json.Unmarshal into a map with values of any type: a flat object
ParseJSON(s) ==
    LET open == SkipSpace(s, 1)
        first == SkipSpace(s, open + 1)
    IN IF open > Len(s) \/ Char(s, open) # "{" THEN NoObject
       ELSE IF first <= Len(s) /\ Char(s, first) = "}"
       THEN [ok |-> SkipSpace(s, first + 1) > Len(s), members |-> <<>>]
       ELSE JSONMembers(s, first, <<>>)

isJSON(s) == ParseJSON(s).ok

\* the lines of a text, without the line breaks
RECURSIVE SplitLines(_)
SplitLines(s) ==
    LET k == IndexFrom(s, "\n", 1)
    IN IF s = "" THEN <<>>
       ELSE IF k = 0 THEN <<s>>
       ELSE <<SubSeq(s, 1, k - 1)>> \o SplitLines(SubSeq(s, k + 1, Len(s)))

\* one line "key: value" of a YAML block mapping of plain scalars
YAMLMember(line) ==
    LET k == IndexFrom(line, ": ", 1)
    IN IF k <= 1 \/ Char(line, 1) \in {"{", "[", "\"", " ", "-"} THEN [ok |-> FALSE, k |-> "", ty |-> "", v |-> ""]
       ELSE [ok |-> TRUE, k |-> SubSeq(line, 1, k - 1), ty |-> "string",
             v |-> SubSeq(line, k + 2, Len(line))]

\* yaml.Unmarshal into a map: the empty document decodes to the nil map, a
\* block mapping to its members, every other text is no map
ParseYAML(s) ==
    LET lines == SplitLines(s)
    IN IF \A n \in 1..Len(lines) : YAMLMember(lines[n]).ok
       THEN [ok |-> TRUE,
             members |-> [n \in 1..Len(lines) |->
                             [k |-> YAMLMember(lines[n]).k, ty |-> "string", v |-> YAMLMember(lines[n]).v]]]
       ELSE NoObject

isYAML(s) == ParseYAML(s).ok

\* js[key] of a Go map built from the members: the last member of that key,
\* the zero value "" when no member has the key
RECURSIVE MapIndex(_, _, _)
MapIndex(members, key, n) ==
    IF n = 0 THEN ""
    ELSE IF members[n].k = key THEN members[n].v
    ELSE MapIndex(members, key, n - 1)

\* the function extract(content, key): the members are decoded into a map of
\* strings, which fails for a number or a boolean, and the map is indexed
extract(content, key) ==
    LET obj == IF isJSON(content) THEN ParseJSON(content) ELSE ParseYAML(content)
    IN IF ~obj.ok THEN [err |-> "unknown content type, only json and yaml supported", res |-> ""]
       ELSE IF \E n \in 1..Len(obj.members) : obj.members[n].ty \notin {"string", "null"}
       THEN [err |-> "json: cannot unmarshal " \o
                     obj.members[CHOOSE n \in 1..Len(obj.members) :
                                    obj.members[n].ty \notin {"string", "null"}].ty
                     \o " into Go value of type string",
             res |-> ""]
       ELSE [err |-> "", res |-> MapIndex(obj.members, key, Len(obj.members))]

\* file(file, content): the value the function returns once the file is written
FileFuncResult(args) == FILE_FUNC_SUCCESS \o args[1]

\* the functions of contextFuncs the documents of the model call
ModelledFuncs == {"quote", "unquote", "file"}

\* hcl.Expression.Value: ctx maps the root names in scope to objects; the
\* documents of the model call the functions quote, unquote and file
RECURSIVE Eval(_, _)
Eval(expr, ctx) ==
    CASE expr.t = "lit" -> [err |-> "", val |-> StringVal(expr.s)]
      [] expr.t = "num" -> [err |-> "", val |-> NumberVal(expr.s)]
      [] expr.t = "bool" -> [err |-> "", val |-> BoolVal(expr.s)]
      [] expr.t = "ref" ->
            IF expr.s \notin DOMAIN ctx THEN [err |-> "Unknown variable", val |-> DynamicVal]
            ELSE Traverse(ObjectVal(ctx[expr.s]), expr.rel, 1)
      [] expr.t = "call" ->
            LET a == [k \in 1..Len(expr.args) |-> Eval(expr.args[k], ctx)]
                strs == [k \in 1..Len(expr.args) |-> a[k].val.s]
            IN IF expr.s \notin ModelledFuncs
               THEN [err |-> "Call to unknown function", val |-> DynamicVal]
               ELSE IF expr.s = "file" /\ Len(a) # 2
               THEN [err |-> "Not enough function arguments", val |-> DynamicVal]
               ELSE IF \E k \in 1..Len(a) : a[k].err # ""
               THEN [err |-> a[CHOOSE k \in 1..Len(a) :
                                  a[k].err # "" /\ \A j \in 1..(k - 1) : a[j].err = ""].err,
                     val |-> DynamicVal]
               ELSE IF \E k \in 1..Len(a) : a[k].val.ty = "dynamic"
               THEN [err |-> "", val |-> DynamicVal]
               ELSE IF expr.s = "quote" THEN [err |-> "", val |-> StringVal(quote(strs))]
               ELSE IF expr.s = "file" THEN [err |-> "", val |-> StringVal(FileFuncResult(strs))]
               ELSE [err |-> "", val |-> StringVal(unquote(strs))]

\* the files the calls of file() write while expr is evaluated, in order: the
\* arguments of a call are evaluated before the call is made
RECURSIVE FileWrites(_, _)
RECURSIVE FileWritesOfArgs(_, _, _)
FileWrites(expr, ctx) ==
    IF expr.t # "call" THEN <<>>
    ELSE FileWritesOfArgs(expr.args, ctx, 1)
         \o (IF expr.s = "file" /\ Eval(expr, ctx).err = "" /\ Eval(expr, ctx).val.ty = "string"
             THEN <<[path |-> Eval(expr.args[1], ctx).val.s, content |-> Eval(expr.args[2], ctx).val.s]>>
             ELSE <<>>)

FileWritesOfArgs(args, ctx, k) ==
    IF k > Len(args) THEN <<>>
    ELSE FileWrites(args[k], ctx) \o FileWritesOfArgs(args, ctx, k + 1)

\* decodeAttrs over one locals block; a failed attribute yields the dynamic value
decodeAttrs(attrs, ctx) == [n \in DOMAIN attrs |-> Eval(attrs[n], ctx).val]

\* decodeLocalVars: later locals blocks override earlier ones; diagnostics are dropped
RECURSIVE decodeLocalVars(_, _, _)
decodeLocalVars(locals, ctx, k) ==
    IF k > Len(locals) THEN <<>>
    ELSE decodeLocalVars(locals, ctx, k + 1) @@ decodeAttrs(locals[k].TmplVars, ctx)

RECURSIVE ReplaceSeparators(_, _, _)
ReplaceSeparators(envVar, separators, replacer) ==
    IF separators = <<>> THEN envVar
    ELSE ReplaceSeparators(ReplaceAll(envVar, Head(separators), replacer), Tail(separators), replacer)

formatEnvVar(envVar, prefix, replacer, separators) ==
    ReplaceSeparators(ToUpper(TrimPrefix(envVar, prefix)), separators, replacer)

RECURSIVE TrimPrefixes(_, _)
TrimPrefixes(id, prefixes) ==
    IF prefixes = <<>> THEN id ELSE TrimPrefixes(TrimPrefix(id, Head(prefixes)), Tail(prefixes))

\* decodeSecretVars: normalised identifier -> content, a later secret overriding an earlier
RECURSIVE decodeSecretVars(_, _, _)
decodeSecretVars(secrets, prefixes, k) ==
    IF k > Len(secrets) THEN <<>>
    ELSE decodeSecretVars(secrets, prefixes, k + 1)
         @@ (formatEnvVar(TrimPrefixes(secrets[k].ID, prefixes), "/", "_", <<"-", "/">>)
                :> StringVal(secrets[k].Content))

\* variant: a local declared in the file wins over the environment variable
createEnvHCLContextLocalsFirst(locals, secrets, prefixes, env) ==
    LET envVars == decodeEnvVars(env, 1)
        localVars == decodeLocalVars(locals, (LOCALS_KEY :> envVars), 1) @@ envVars
    IN (LOCALS_KEY :> localVars) @@ (SECRET_KEY :> decodeSecretVars(secrets, prefixes, 1))

\* createEnvHCLContext, given the document's Locals after decodeLocalVars extended them
createEnvHCLContext(locals, secrets, prefixes, env) ==
    LET envVars == decodeEnvVars(env, 1)
        localVars == envVars @@ decodeLocalVars(locals, (LOCALS_KEY :> envVars), 1)
    IN (LOCALS_KEY :> localVars) @@ (SECRET_KEY :> decodeSecretVars(secrets, prefixes, 1))

(***************************************************************************)
(* Process: rendering                                                      *)
(***************************************************************************)
writeKeyValue(content, format, key, value, envVarCount) ==
    CASE format = "yaml" -> content \o key \o ": " \o value \o "\n"
      [] format = "json" ->
            IF envVarCount = 0
            THEN content \o "\n\t\"" \o key \o "\": " \o value
            ELSE content \o ",\n\t\"" \o key \o "\": " \o value
      [] format = "tfvars" ->
            (IF envVarCount = 0
             THEN content \o "\n\t{\n\t\tname = \"" \o key \o "\"\n"
             ELSE content \o ",\n\t{\n\t\tname = \"" \o key \o "\"\n")
            \o "\t\tvalue = " \o value \o "\n\t}"
      [] OTHER -> content \o key \o "=" \o value \o "\n"

\* wrapGroupLabel formats the label using the commentSymbol as a filler
wrapGroupLabel(content, title, commentSymbol) ==
    IF commentSymbol # ""
    THEN LET commentBuffer == Repeat(commentSymbol, Len(title) + LABEL_PADDING)
         IN content \o commentBuffer \o "\n" \o commentSymbol \o commentSymbol \o "   " \o title
            \o "   " \o commentSymbol \o commentSymbol \o "\n" \o commentBuffer \o "\n"
    ELSE content

\* strings.Join(strings.SplitAfter(s, "\n")[1:], ""): s without its first line
AfterFirstLine(s) ==
    LET k == IndexFrom(s, "\n", 1) IN IF k = 0 THEN "" ELSE SubSeq(s, k + 1, Len(s))

\* hclparse of "key = <text>" for the expressions the scripts of the model hold
ScriptExprs ==
    ("file(\"id_rsa\", \"key\")" :> Call("file", <<Lit("id_rsa"), Lit("key")>>))
        @@ ("unquote(\"#!jaws\")" :> Call("unquote", <<Lit("#!jaws")>>))
        @@ ("quote(var.env)" :> Call("quote", <<Ref(LOCALS_KEY, <<TraverseAttr("env")>>)>>))

\* hclparse of "key = \"<text>\"" for the interpolations the scripts of the model hold
TemplateExprs ==
    ("${var.loop}" :> Ref(LOCALS_KEY, <<TraverseAttr("loop")>>))
        @@ ("${var.env}" :> Ref(LOCALS_KEY, <<TraverseAttr("env")>>))

\* the expression parseAttrString evaluates for the text attr: the text itself
\* when it holds both parentheses, the text between double quotes otherwise; a
\* quoted text with a line break or a double quote does not parse, one without
\* interpolation or escape is a literal
ParseAttr(attr) ==
    IF Contains(attr, "(") /\ Contains(attr, ")")
    THEN (IF attr \in DOMAIN ScriptExprs THEN [err |-> "", expr |-> ScriptExprs[attr]]
          ELSE [err |-> "Invalid expression", expr |-> Lit("")])
    ELSE IF Contains(attr, "\n") \/ Contains(attr, "\"")
    THEN [err |-> "Invalid string literal", expr |-> Lit("")]
    ELSE IF attr \in DOMAIN TemplateExprs THEN [err |-> "", expr |-> TemplateExprs[attr]]
    ELSE IF Contains(attr, "${") \/ Contains(attr, "%{") \/ Contains(attr, "\\")
    THEN [err |-> "Invalid template", expr |-> Lit("")]
    ELSE [err |-> "", expr |-> Lit(attr)]

\* the return values of parseAttrString: parsed is the outcome of the parse, r of
\* the evaluation, files the files written by file() on the way
parseAttrResult(parsed, r, files) ==
    IF parsed.err # "" THEN [err |-> parsed.err, res |-> "", files |-> <<>>]
    ELSE IF r.err # "" THEN [err |-> r.err, res |-> "", files |-> files]
    ELSE [err |-> "", res |-> r.val.s, files |-> files]

\* the decoding of the parsed vars block in the context evalContext
decodeParsed(parsed, evalContext) ==
    parseAttrResult(parsed, Eval(parsed.expr, evalContext), FileWrites(parsed.expr, evalContext))

\* a result u that holds the interpreter marker is evaluated once more
decodeAgain(u, evalContext) ==
    IF u.err = "" /\ Contains(u.res, INTERPRETER_SHEBANG)
    THEN [decodeParsed(ParseAttr(AfterFirstLine(u.res)), evalContext) EXCEPT !.files = u.files]
    ELSE u

\* variant: a result that holds the interpreter marker is evaluated once more
parseAttrStringAgain(attr, env) ==
    decodeAgain(decodeParsed(ParseAttr(attr), (LOCALS_KEY :> decodeEnvVars(env, 1))),
                (LOCALS_KEY :> decodeEnvVars(env, 1)))

\* parseAttrString: the text is wrapped into a vars block and evaluated once, with
\* the JAWS_ environment as var; res is the value, err a non-empty error, files
\* the files written by file()
parseAttrString(attr, env) ==
    decodeParsed(ParseAttr(attr), (LOCALS_KEY :> decodeEnvVars(env, 1)))

\* processAttr, the interpreter branch: u is the outcome of parseAttrString, rs
\* the render state before the attribute, used the state with the name recorded
writeInterpreted(rs, used, name, u, format) ==
    IF u.err # ""
    THEN [rs EXCEPT !.fatal = TRUE, !.err = u.err, !.files = @ \o u.files]
    ELSE [used EXCEPT !.content = writeKeyValue(rs.content, format, name, u.res, rs.envVarCount),
                      !.files = @ \o u.files]

\* processAttr, the switch on the type of the value v of a name not seen before
writeValue(rs, used, name, v, format, env) ==
    CASE v.ty = "string" /\ Contains(v.s, FILE_FUNC_SUCCESS) ->
            [used EXCEPT !.content = writeKeyValue(rs.content, format, name \o "_PATH",
                              ReplaceAll(v.s, FILE_FUNC_SUCCESS, ""), rs.envVarCount)]
      [] v.ty = "string" /\ ~Contains(v.s, FILE_FUNC_SUCCESS)
            /\ Contains(v.s, INTERPRETER_SHEBANG) ->
            writeInterpreted(rs, used, name, parseAttrString(AfterFirstLine(v.s), env), format)
      [] v.ty = "string" /\ ~Contains(v.s, FILE_FUNC_SUCCESS)
            /\ ~Contains(v.s, INTERPRETER_SHEBANG) ->
            [used EXCEPT !.content = writeKeyValue(rs.content, format, name,
                              "\"" \o TrimRightNL(v.s) \o "\"", rs.envVarCount)]
      [] OTHER -> used

\* processAttr, one attribute whose expression evaluated to r
writeAttr(rs, name, r, format, env) ==
    IF r.err # ""
    THEN (IF Contains(r.err, "Unsupported attribute")
          THEN [rs EXCEPT !.err = "no value for key '" \o name \o "' found"]
          ELSE [rs EXCEPT !.err = "error in e.Write getting value of attribute HCL: " \o r.err])
    ELSE IF contains(rs.usedKeys, name) THEN rs
    ELSE writeValue(rs, [rs EXCEPT !.usedKeys = Append(@, name), !.envVarCount = @ + 1],
                    name, r.val, format, env)

\* the body of processAttr's loop for the attribute name; rs0 is the render state
\* [usedKeys, content, envVarCount, err, fatal, files]
processOneAttr(rs0, name, expr, evalContext, format, env) ==
    writeAttr([rs0 EXCEPT !.files = @ \o FileWrites(expr, evalContext)],
              name, Eval(expr, evalContext), format, env)

\* processAttr: the attributes of one block visited in the order p
RECURSIVE processAttrLoop(_, _, _, _, _, _, _)
processAttrLoop(rs, attrs, p, k, evalContext, format, env) ==
    IF rs.err # "" THEN rs
    ELSE IF k > Len(p)
    THEN (IF format \in {"json", "tfvars"} THEN rs ELSE [rs EXCEPT !.content = @ \o "\n"])
    ELSE processAttrLoop(processOneAttr(rs, p[k], attrs[p[k]], evalContext, format, env),
                         attrs, p, k + 1, evalContext, format, env)

\* the render states processAttr can leave, one per iteration order of the block
processAttr(rs, attrs, evalContext, format, env) ==
    {processAttrLoop(rs, attrs, p, 1, evalContext, format, env) : p \in Perms(DOMAIN attrs)}

\* the loop over the labeled groups (labeled = TRUE) or the vars blocks
RECURSIVE processBlocks(_, _, _, _, _, _, _, _)
processBlocks(RS, blocks, b, labeled, commentSymbol, evalContext, format, env) ==
    IF b > Len(blocks) THEN RS
    ELSE processBlocks(
            UNION {IF rs.err # "" THEN {rs}
                   ELSE processAttr(
                            IF labeled /\ blocks[b].Label # ""
                            THEN [rs EXCEPT !.content = wrapGroupLabel(@, blocks[b].Label, commentSymbol)]
                            ELSE rs,
                            blocks[b].TmplVars, evalContext, format, env) : rs \in RS},
            blocks, b + 1, labeled, commentSymbol, evalContext, format, env)

\* the auto mode of Process: one entry per supplied secret
RECURSIVE autoSecrets(_, _, _, _, _)
autoSecrets(rs, secrets, k, filter, format) ==
    IF k > Len(secrets) THEN rs
    ELSE autoSecrets([rs EXCEPT
                        !.content = writeKeyValue(@, format,
                                        formatEnvVar(secrets[k].ID, filter, "_", <<"/", "-">>),
                                        TrimRightNL(secrets[k].Content), rs.envVarCount),
                        !.envVarCount = @ + 1],
                     secrets, k + 1, filter, format)

\* variant: a recognised extension of the out file wins over the format option
OutExtFileFirst(e) ==
    IF Ext(e.OutFile) \in {".yaml", ".yml", ".json", ".tfvars"} THEN Ext(e.OutFile)
    ELSE IF e.OutFormat # "" THEN "." \o e.OutFormat
    ELSE Ext(e.OutFile)

\* the extension Process selects the format by: the format option, else the out file's
OutExt(e) == IF e.OutFormat # "" THEN "." \o e.OutFormat ELSE Ext(e.OutFile)

FormatOfExt(ext) ==
    CASE ext \in {".yaml", ".yml"} -> "yaml"
      [] ext = ".json" -> "json"
      [] ext = ".tfvars" -> "tfvars"
      [] OTHER -> ""

CommentOfExt(ext) == IF ext = ".json" THEN "" ELSE "#"

\* the filter Process keeps for the document when secrets are supplied
ProcessFilter(filter) ==
    IF Char(filter, Len(filter)) = "*" THEN TrimSuffix(filter, "*")
    ELSE IF Char(filter, Len(filter)) # "/" THEN filter \o "/"
    ELSE filter

\* the evaluation context Process builds for the document e
ProcessContext(e, secrets, env) ==
    LET withSecrets == ~secrets.nil /\ e.Filter # ""
        locals == e.Locals \o ConfigDisk[AbsPath(e.ConfigFile)].locals
    IN IF withSecrets
       THEN createEnvHCLContext(locals, secrets.items, <<ProcessFilter(e.Filter)>>, env)
       ELSE createEnvHCLContext(locals, <<>>, <<"">>, env)

\* EnvHCL.Process: the outcomes [env, err, fatal, files] of one call on the
\* document e; secrets is [nil, items], env the value of os.Environ(), files the
\* files the calls of file() wrote
Process(e, secrets, env) ==
    LET msg == IF e.Message = "" THEN "managed by jaws DO NOT EDIT" ELSE e.Message
        ext == OutExt(e)
        format == FormatOfExt(ext)
        commentSymbol == CommentOfExt(ext)
        content0 == IF commentSymbol # "" THEN "# " \o msg \o "\n" ELSE ""
        withSecrets == ~secrets.nil /\ e.Filter # ""
        filter == IF withSecrets THEN ProcessFilter(e.Filter) ELSE e.Filter
        e1 == [e EXCEPT !.Message = msg]
    IN IF ~IsConfigFile(e.ConfigFile)
       THEN {[env |-> e1, err |-> "no config file found", fatal |-> FALSE, files |-> <<>>]}
       ELSE
       LET srcHCL == ConfigDisk[AbsPath(e.ConfigFile)]
           locals == e.Locals \o srcHCL.locals
           e2 == [e1 EXCEPT !.Filter = filter, !.Locals = locals]
           evalContext == ProcessContext(e, secrets, env)
           content1 == IF commentSymbol # ""
                       THEN content0
                            \o (IF e.Profile # "" THEN commentSymbol \o " profile: " \o e.Profile \o "\n" ELSE "")
                            \o (IF filter # "" THEN commentSymbol \o " prefix: " \o filter \o "\n" ELSE "")
                            \o (IF e.Profile # "" \/ filter # "" THEN "\n" ELSE "")
                       ELSE content0
           content2 == CASE format = "json" -> content1 \o "{\n"
                         [] format = "tfvars" -> content1 \o "["
                         [] OTHER -> content1
           rs0 == [usedKeys |-> <<>>, content |-> content2, envVarCount |-> 0,
                   err |-> "", fatal |-> FALSE, files |-> <<>>]
           RS1 == processBlocks({rs0}, e.GroupedLabeledVars, 1, TRUE, commentSymbol, evalContext, format, env)
           RS2 == processBlocks(RS1, e.GroupedVars, 1, FALSE, commentSymbol, evalContext, format, env)
           secretsDetected == Len(e.GroupedLabeledVars) > 0 \/ Len(e.GroupedVars) > 0
       IN {IF rs.err # "" THEN [env |-> e2, err |-> rs.err, fatal |-> rs.fatal, files |-> rs.files]
           ELSE LET rs3 == IF ~secretsDetected
                           THEN autoSecrets(rs, secrets.items, 1, filter, format)
                           ELSE rs
                    content3 == CASE format = "json" -> rs3.content \o "\n}\n"
                                  [] format = "tfvars" -> rs3.content \o "\n]\n"
                                  [] OTHER -> rs3.content
                    content == IF rs3.envVarCount = 0 THEN "" ELSE content3
                IN [env |-> [e2 EXCEPT !.Reader = NewReader(content), !.Processed = TRUE],
                    err |-> "", fatal |-> FALSE, files |-> rs.files] : rs \in RS2}

(***************************************************************************)
(* utils.CompareStrings                                                    *)
(***************************************************************************)
\* bufio.MaxScanTokenSize: a line of this many bytes stops the scanner with ErrTooLong
MaxScanTokenSize == 65536

DropCR(line) == IF HasSuffix(line, "\r") THEN SubSeq(line, 1, Len(line) - 1) ELSE line

\* the tokens bufio.Scanner (ScanLines) yields for s, and whether it stopped on an error
RECURSIVE ScanLines(_)
ScanLines(s) ==
    IF s = "" THEN [lines |-> <<>>, err |-> FALSE]
    ELSE LET k == IndexFrom(s, "\n", 1)
             raw == IF k = 0 THEN s ELSE SubSeq(s, 1, k - 1)
             rest == IF k = 0 THEN [lines |-> <<>>, err |-> FALSE]
                     ELSE ScanLines(SubSeq(s, k + 1, Len(s)))
         IN IF Len(raw) >= MaxScanTokenSize THEN [lines |-> <<>>, err |-> TRUE]
            ELSE [lines |-> <<DropCR(raw)>> \o rest.lines, err |-> rest.err]

\* scanner.Text() in round k: the k-th token, "" once the scanner is exhausted
TextAt(lines, k) == IF k <= Len(lines) THEN lines[k] ELSE ""

Max(a, b) == IF a >= b THEN a ELSE b

\* CompareStrings: pairwise comparison of the lines of str1 and str2
CompareStrings(str1, str2, print) ==
    LET a == ScanLines(str1)
        b == ScanLines(str2)
    IN IF a.err \/ b.err THEN [isDiff |-> FALSE, err |-> "bufio.Scanner: token too long"]
       ELSE [isDiff |-> \E k \in 1..Max(Len(a.lines), Len(b.lines)) :
                            TextAt(a.lines, k) # TextAt(b.lines, k),
             err |-> ""]

(***************************************************************************)
(* Write                                                                   *)
(***************************************************************************)
\* time.Format(time.RFC3339) of the modtime t, counted in seconds
RFC3339(t) == "2006-01-02T15:04:0" \o ToString(t) \o "Z"

\* the directories in which files can be created
ExistingDirs == {Cwd} \cup DOMAIN DirDisk

FileExists(files, p) == p # "" /\ AbsPath(p) \in DOMAIN files

CanCreate(p) == p # "" /\ DirOf(AbsPath(p)) \in ExistingDirs

RemoveFile(files, p) == [q \in DOMAIN files \ {AbsPath(p)} |-> files[q]]

\* os.Rename: the file keeps its content and modtime, an existing target is replaced
RenameFile(files, old, new) ==
    (AbsPath(new) :> files[AbsPath(old)]) @@ RemoveFile(RemoveFile(files, old), new)

\* os.Create: an empty file, truncating an existing one
CreateFile(files, p, t) == (AbsPath(p) :> [content |-> "", mtime |-> t]) @@ RemoveFile(files, p)

\* io.Copy into the created file
WriteFile(files, p, data, t) ==
    (AbsPath(p) :> [content |-> files[AbsPath(p)].content \o data, mtime |-> t]) @@ RemoveFile(files, p)

\* the function file(): an existing file is removed, the file is created (its
\* directory with it) and the content written
RECURSIVE ApplyFileWrites(_, _, _)
ApplyFileWrites(files, writes, t) ==
    IF writes = <<>> THEN files
    ELSE ApplyFileWrites((AbsPath(Head(writes).path) :> [content |-> Head(writes).content, mtime |-> t])
                             @@ RemoveFile(files, Head(writes).path),
                         Tail(writes), t)

\* the lines an operator types at a prompt
Answers == {"y", "YES", "n", ""}

\* fmt.Scanln(&userResponse): the first whitespace-delimited word of the line
RECURSIVE FirstWord(_)
FirstWord(line) ==
    IF line = "" THEN ""
    ELSE IF IsSpace(Char(line, 1)) THEN FirstWord(SubSeq(line, 2, Len(line)))
    ELSE LET k == CHOOSE j \in 1..(Len(line) + 1) :
                      /\ (j = Len(line) + 1 \/ IsSpace(Char(line, j)))
                      /\ \A m \in 1..(j - 1) : ~IsSpace(Char(line, m))
         IN SubSeq(line, 1, k - 1)

\* variant: an empty answer takes the default the "[Y/n]" prompt advertises
ApprovesEmptyAnswer(line) == ToLower(TrimSpace(FirstWord(line))) \in {"y", "yes", ""}

Approves(line) == ToLower(TrimSpace(FirstWord(line))) \in {"y", "yes"}

Event(i, ev, path, arg) == [doc |-> i, ev |-> ev, path |-> path, arg |-> arg]

\* lines 97-138 of Write for a path that is no stdout: backup or removal, creation, copy;
\* ws is [Env, Options, fs, log, ret], t the current time
WriteCommit(ws, i, buf, existingOutFile, t) ==
    LET env == ws.Env[i]
        safe == existingOutFile /\ ~ws.Options.UnsafeMode
        outFile == IF safe THEN TrimPrefix(env.OutFile, "./") ELSE env.OutFile
        backupEnvName == RFC3339(ws.fs[AbsPath(env.OutFile)].mtime) \o "-" \o outFile
        ws1 == [ws EXCEPT !.Env[i].OutFile = outFile]
    IN IF safe /\ ~CanCreate(backupEnvName)
       THEN [ws1 EXCEPT !.ret = "rename " \o outFile \o " " \o backupEnvName \o ": no such file or directory",
                        !.log = Append(@, Event(i, "error", outFile, "rename"))]
       ELSE
       LET ws2 == IF safe
                  THEN [ws1 EXCEPT !.fs = RenameFile(@, outFile, backupEnvName),
                                   !.Options.Overwrite = FALSE,
                                   !.log = Append(@, Event(i, "rename", outFile, backupEnvName))]
                  ELSE ws1
           remove == existingOutFile /\ ws2.Options.Overwrite
       IN IF remove /\ ~FileExists(ws2.fs, outFile)
          THEN [ws2 EXCEPT !.ret = "remove " \o outFile \o ": no such file or directory",
                           !.log = Append(@, Event(i, "error", outFile, "remove"))]
          ELSE
          LET ws3 == IF remove
                     THEN [ws2 EXCEPT !.fs = RemoveFile(@, outFile),
                                      !.log = Append(@, Event(i, "remove", outFile, ""))]
                     ELSE ws2
          IN IF ~CanCreate(outFile)
             THEN [ws3 EXCEPT !.ret = "open " \o outFile \o ": no such file or directory",
                              !.log = Append(@, Event(i, "error", outFile, "create"))]
             ELSE
             LET ws4 == [ws3 EXCEPT
                            !.log = Append(@, Event(i, "create", outFile,
                                        IF FileExists(ws3.fs, outFile) THEN "truncate" ELSE "new")),
                            !.fs = CreateFile(@, outFile, t)]
             IN IF buf # ""
                THEN [ws4 EXCEPT !.fs = WriteFile(@, outFile, buf, t),
                                 !.log = Append(@, Event(i, "write", outFile, buf))]
                ELSE ws4

\* variant: the comparison with the existing file is made in diff mode only
WriteExistingDiffOnly(ws, i, buf, t) ==
    LET env == ws.Env[i]
        o == ws.Options
        opts1 == IF o.Diff
                 THEN (IF o.Overwrite THEN [o EXCEPT !.UnsafeMode = TRUE] ELSE o)
                 ELSE (IF o.Overwrite THEN [o EXCEPT !.UnsafeMode = TRUE]
                       ELSE IF ~o.UnsafeMode THEN [o EXCEPT !.Overwrite = TRUE]
                       ELSE o)
        cmp == IF o.Diff THEN CompareStrings(ws.fs[AbsPath(env.OutFile)].content, buf, TRUE)
               ELSE [isDiff |-> TRUE, err |-> ""]
        ws1 == [ws EXCEPT !.Options = opts1]
    IN IF cmp.err # ""
       THEN {[ws1 EXCEPT !.ret = cmp.err, !.log = Append(@, Event(i, "error", env.OutFile, "compare"))]}
       ELSE IF ~cmp.isDiff
       THEN {[ws1 EXCEPT !.ret = "nil", !.log = Append(@, Event(i, "nochange", env.OutFile, ""))]}
       ELSE IF ~opts1.Overwrite
       THEN {LET asked == [ws1 EXCEPT !.log = Append(@, Event(i, "prompt", env.OutFile, answer))]
             IN IF Approves(answer)
                THEN WriteCommit([asked EXCEPT !.Options.Overwrite = IF opts1.UnsafeMode THEN TRUE ELSE @],
                                 i, buf, TRUE, t)
                ELSE [asked EXCEPT !.ret = "nil", !.log = Append(@, Event(i, "quit", env.OutFile, ""))] :
                 answer \in Answers}
       ELSE {WriteCommit(ws1, i, buf, TRUE, t)}

\* lines 32-91 of Write, the out file exists: the states one iteration can end in,
\* one per line the operator can type when prompted
WriteExisting(ws, i, buf, t) ==
    LET env == ws.Env[i]
        o == ws.Options
        opts1 == IF o.Diff
                 THEN (IF o.Overwrite THEN [o EXCEPT !.UnsafeMode = TRUE] ELSE o)
                 ELSE (IF o.Overwrite THEN [o EXCEPT !.UnsafeMode = TRUE]
                       ELSE IF ~o.UnsafeMode THEN [o EXCEPT !.Overwrite = TRUE]
                       ELSE o)
        cmp == CompareStrings(ws.fs[AbsPath(env.OutFile)].content, buf, o.Diff)
        ws1 == [ws EXCEPT !.Options = opts1]
    IN IF cmp.err # ""
       THEN {[ws1 EXCEPT !.ret = cmp.err, !.log = Append(@, Event(i, "error", env.OutFile, "compare"))]}
       ELSE IF ~cmp.isDiff
       THEN {[ws1 EXCEPT !.ret = "nil", !.log = Append(@, Event(i, "nochange", env.OutFile, ""))]}
       ELSE IF ~opts1.Overwrite
       THEN {LET asked == [ws1 EXCEPT !.log = Append(@, Event(i, "prompt", env.OutFile, answer))]
             IN IF Approves(answer)
                THEN WriteCommit([asked EXCEPT !.Options.Overwrite = IF opts1.UnsafeMode THEN TRUE ELSE @],
                                 i, buf, TRUE, t)
                ELSE [asked EXCEPT !.ret = "nil", !.log = Append(@, Event(i, "quit", env.OutFile, ""))] :
                 answer \in Answers}
       ELSE {WriteCommit(ws1, i, buf, TRUE, t)}

\* one iteration of the loop of Write
WriteDoc(ws, i, t) ==
    LET env == ws.Env[i]
        buf == SubSeq(env.Reader.s, env.Reader.i + 1, Len(env.Reader.s))
        ws0 == [ws EXCEPT !.Env[i].Reader.i = Len(env.Reader.s)]
    IN IF env.Reader.nil THEN {[ws EXCEPT !.ret = "panic"]}
       ELSE IF env.OutFile = "-"
       THEN {IF buf # "" THEN [ws0 EXCEPT !.log = Append(@, Event(i, "stdout", "-", buf))] ELSE ws0}
       ELSE IF FileExists(ws0.fs, env.OutFile) THEN WriteExisting(ws0, i, buf, t)
       ELSE {WriteCommit(ws0, i, buf, FALSE, t)}

\* EnvConfig.Write: the loop over the documents, from document i on
RECURSIVE WriteLoop(_, _, _)
WriteLoop(ws, i, t) ==
    IF ws.ret # "" THEN {ws}
    ELSE IF i > Len(ws.Env) THEN {[ws EXCEPT !.ret = "nil"]}
    ELSE UNION {WriteLoop(w, i + 1, t) : w \in WriteDoc(ws, i, t)}

(***************************************************************************)
(* Inputs                                                                  *)
(***************************************************************************)
\* the Options values a caller can hand to InitEnv
OptionValues ==
    [Diff : BOOLEAN, Overwrite : BOOLEAN, UnsafeMode : BOOLEAN, FilterOverride : {""}]
        \cup [Diff : {FALSE}, Overwrite : {FALSE}, UnsafeMode : {FALSE}, FilterOverride : {"u"}]

\* Diff, Overwrite and UnsafeMode are read by Write only: the lifecycle varies FilterOverride
LifecycleOptions == {o \in OptionValues : ~o.Diff /\ ~o.Overwrite /\ ~o.UnsafeMode}

\* Prepare alone reads FilterOverride: the writer varies the three flags
WriterOptions == {o \in OptionValues : o.FilterOverride = ""}

\* the secrets argument of Process: nil, or the list the fetcher returned
NilSecrets == [nil |-> TRUE, items |-> <<>>]

FetchedSecrets == [nil |-> FALSE, items |-> <<[ID |-> "t/db", Content |-> "pw\n"]>>]

\* the same list after the secret was rotated in the secrets manager
RotatedSecrets == [nil |-> FALSE, items |-> <<[ID |-> "t/db", Content |-> "pw2\n"]>>]

SecretArgs == {NilSecrets, FetchedSecrets, RotatedSecrets}

\* the config files the caller registers before a Write: the batches of a pull
WriteBatches == {<<"e.jaws">>, <<"a.jaws", "e.jaws">>, <<"i.jaws">>, <<"e.jaws", "e.jaws">>}

RECURSIVE AddAll(_, _)
AddAll(E, files) == IF files = <<>> THEN E ELSE AddAll(AddEnvConfigTo(E, Head(files)).Env, Tail(files))

\* the EnvConfig after InitEnv(opts), AddEnvConfig of every file and Prepare
PreparedConfigs(opts) ==
    UNION {{r \in PrepareCall(AddAll(<<>>, files), <<>>, opts) : r.err = ""} : files \in WriteBatches}

\* an output file a user wrote
OldFile == [content |-> "OLD=1\n", mtime |-> 0]

\* the output an earlier pull of the config file left: its rendering with the fetched secrets
PriorOutputs(file) ==
    {[content |-> r.env.Reader.s, mtime |-> 0] :
        r \in UNION {Process(c.Env[1], FetchedSecrets, Environ) :
                        c \in PrepareCall(AddAll(<<>>, <<file>>), <<>>,
                                          [Diff |-> FALSE, Overwrite |-> FALSE, UnsafeMode |-> FALSE,
                                           FilterOverride |-> ""])}}

\* the output files found on disk when the command starts
InitialDisks ==
    {<<>>, ("/w/out.env" :> OldFile) @@ ("/w/e.env" :> OldFile)}
        \cup {("/w/e.env" :> f) : f \in PriorOutputs("e.jaws")}
        \cup {("/w/out.env" :> f) : f \in PriorOutputs("a.jaws")}

(***************************************************************************)
(* Actions                                                                 *)
(***************************************************************************)
AddEnvConfig(file) ==
    /\ ~halted
    /\ Len(Env) < MaxDocs
    /\ LET r == AddEnvConfigTo(Env, file)
       IN /\ Env' = r.Env
          /\ last' = [op |-> "AddEnvConfig", err |-> r.err, doc |-> 0, log |-> <<>>, skipped |-> 0]
    /\ UNCHANGED <<SecretIDs, Options, callerOpts, fs, now, halted, calls, osEnv, fcall, prep>>

Prepare ==
    /\ ~halted
    /\ \E r \in PrepareCall(Env, SecretIDs, Options) :
          /\ r.err # "unbounded"
          /\ Env' = r.Env
          /\ SecretIDs' = r.SecretIDs
          /\ halted' = (r.err = "panic")
          /\ last' = [op |-> "Prepare", err |-> r.err, doc |-> 0, log |-> <<>>,
                      skipped |-> Cardinality({i \in 1..Len(Env) : Env[i].Prepared})]
    /\ UNCHANGED <<Options, callerOpts, fs, now, calls, osEnv, fcall, prep>>

ProcessDoc(i, secrets) ==
    /\ ~halted
    /\ i \in 1..Len(Env)
    /\ calls.process < MaxProcess
    /\ \E r \in Process(Env[i], secrets, osEnv) :
          /\ Env' = [Env EXCEPT ![i] = r.env]
          /\ halted' = r.fatal
          /\ fs' = ApplyFileWrites(fs, r.files, now)
          /\ last' = [op |-> "Process", err |-> r.err, doc |-> i, log |-> <<>>, skipped |-> 0]
    /\ calls' = [calls EXCEPT !.process = @ + 1]
    /\ UNCHANGED <<SecretIDs, Options, callerOpts, now, osEnv, fcall, prep>>

Write ==
    /\ ~halted
    /\ calls.write < MaxWrites
    /\ \E ws \in WriteLoop([Env |-> Env, Options |-> Options, fs |-> fs, log |-> <<>>, ret |-> ""],
                           1, now) :
          /\ Env' = ws.Env
          /\ Options' = ws.Options
          /\ fs' = ws.fs
          /\ halted' = (ws.ret = "panic")
          /\ last' = [op |-> "Write", err |-> IF ws.ret = "nil" THEN "" ELSE ws.ret,
                      doc |-> 0, log |-> ws.log, skipped |-> 0]
    /\ calls' = [calls EXCEPT !.write = @ + 1]
    /\ UNCHANGED <<SecretIDs, callerOpts, now, osEnv, fcall, prep>>

Tick ==
    /\ now < MaxTime
    /\ now' = now + 1
    /\ UNCHANGED <<Env, SecretIDs, Options, callerOpts, fs, last, halted, calls, osEnv, fcall, prep>>

\* one call of the chain e.Prepare() -> e.Prepare() -> ...: the loop over the
\* documents, then the return with an error, the nested call, or the return
\* of the whole chain
PreparePass ==
    /\ ~halted
    /\ Len(prep.stack) < MaxDepth
    /\ \E st \in PrepareLoop([Env |-> Env, ids |-> <<>>, includeCount |-> 0, err |-> ""],
                             1, Len(Env), Options) :
          /\ Env' = st.Env
          /\ halted' = (st.err = "panic")
          /\ IF st.err # ""
             THEN /\ prep' = NoPrepare
                  /\ SecretIDs' = SecretIDs
                  /\ last' = [op |-> "Prepare", err |-> st.err, doc |-> 0, log |-> <<>>,
                              skipped |-> Cardinality({i \in 1..Len(Env) : Env[i].Prepared})]
             ELSE IF st.includeCount > 0
             THEN /\ prep' = [active |-> TRUE, stack |-> <<st.ids>> \o prep.stack]
                  /\ SecretIDs' = SecretIDs
                  /\ last' = [op |-> "PrepareNested", err |-> "", doc |-> 0, log |-> <<>>,
                              skipped |-> Cardinality({i \in 1..Len(Env) : Env[i].Prepared})]
             ELSE /\ prep' = NoPrepare
                  /\ SecretIDs' = Unwind(AddIds(SecretIDs, st.ids), prep.stack)
                  /\ last' = [op |-> "Prepare", err |-> "", doc |-> 0, log |-> <<>>,
                              skipped |-> Cardinality({i \in 1..Len(Env) : Env[i].Prepared})]
    /\ UNCHANGED <<Options, callerOpts, fs, now, calls, osEnv, fcall>>

(***************************************************************************)
(* Specification of the document lifecycle: registration, Prepare, Process *)
(***************************************************************************)
Init ==
    /\ Env = <<>>
    /\ SecretIDs = <<>>
    /\ callerOpts \in LifecycleOptions
    /\ Options = callerOpts
    /\ fs = <<>>
    /\ now = 0
    /\ last = NoCall
    /\ halted = FALSE
    /\ calls = [process |-> 0, write |-> 0]
    /\ osEnv = Environ
    /\ fcall = NoFunc
    /\ prep = NoPrepare

Next ==
    \/ \E file \in AddArgs : AddEnvConfig(file)
    \/ Prepare
    \/ \E i \in 1..MaxEnv, secrets \in SecretArgs : ProcessDoc(i, secrets)

Spec == Init /\ [][Next]_vars

(***************************************************************************)
(* Specification of the writer: a prepared batch is rendered and written   *)
(***************************************************************************)
InitWrite ==
    /\ callerOpts \in WriterOptions
    /\ Options = callerOpts
    /\ \E c \in PreparedConfigs(callerOpts) : Env = c.Env /\ SecretIDs = c.SecretIDs
    /\ fs \in InitialDisks
    /\ now = 0
    /\ last = [op |-> "Prepare", err |-> "", doc |-> 0, log |-> <<>>, skipped |-> 0]
    /\ halted = FALSE
    /\ calls = [process |-> 0, write |-> 0]
    /\ osEnv = Environ
    /\ fcall = NoFunc
    /\ prep = NoPrepare

NextWrite ==
    \/ \E i \in 1..MaxEnv, secrets \in SecretArgs : ProcessDoc(i, secrets)
    \/ Write
    \/ Tick

SpecWrite == InitWrite /\ [][NextWrite]_vars

(***************************************************************************)
(* Specification of the backup: the documents write below the directory    *)
(* sub, which exists and may hold their output files                       *)
(***************************************************************************)
\* the batches of a pull whose out files have directory components
BackupBatches == {<<"s.jaws">>, <<"t.jaws">>, <<"e.jaws", "s.jaws">>}

BackupDisks ==
    {<<>>, ("/w/sub/.env" :> OldFile), ("/w/sub/abs.env" :> OldFile),
     ("/w/sub/.env" :> OldFile) @@ ("/w/e.env" :> OldFile)}

InitBackup ==
    /\ callerOpts \in WriterOptions
    /\ Options = callerOpts
    /\ \E files \in BackupBatches :
          \E c \in {r \in PrepareCall(AddAll(<<>>, files), <<>>, callerOpts) : r.err = ""} :
              Env = c.Env /\ SecretIDs = c.SecretIDs
    /\ fs \in BackupDisks
    /\ now = 0
    /\ last = [op |-> "Prepare", err |-> "", doc |-> 0, log |-> <<>>, skipped |-> 0]
    /\ halted = FALSE
    /\ calls = [process |-> 0, write |-> 0]
    /\ osEnv = Environ
    /\ fcall = NoFunc
    /\ prep = NoPrepare

SpecBackup == InitBackup /\ [][NextWrite]_vars

(***************************************************************************)
(* Specification of the renderer: one prepared document is rendered under  *)
(* the environments and secrets a pull can meet                            *)
(***************************************************************************)
\* the values of os.Environ()
Environs ==
    {Environ,
     <<"HOME=/w", "JAWS_env=prod">>,
     <<"JAWS_region=eu", "HOME=/w">>,
     <<"JAWS_env=prod", "JAWS_region=eu=1">>}

\* the secret of the documentation's example
ScenarioSecrets == [nil |-> FALSE, items |-> <<[ID |-> "testing/jaws/db", Content |-> "pw"]>>]

\* the same with a secret that holds a jaws script
ScriptSecrets ==
    [nil |-> FALSE,
     items |-> <<[ID |-> "testing/jaws/db", Content |-> "pw"],
                 [ID |-> "testing/jaws/script", Content |-> "#!jaws\nvar.env"]>>]

RenderSecrets == {NilSecrets, ScenarioSecrets, ScriptSecrets}

RenderFiles == ScenarioFiles \cup {"v.jaws", "r.jaws", "d.jaws"}

DefaultOptions == [Diff |-> FALSE, Overwrite |-> FALSE, UnsafeMode |-> FALSE, FilterOverride |-> ""]

InitRender ==
    /\ callerOpts = DefaultOptions
    /\ Options = callerOpts
    /\ \E file \in RenderFiles :
          \E c \in PrepareCall(AddAll(<<>>, <<file>>), <<>>, DefaultOptions) :
              c.err = "" /\ Env = c.Env /\ SecretIDs = c.SecretIDs
    /\ fs = <<>>
    /\ now = 0
    /\ last = [op |-> "Prepare", err |-> "", doc |-> 0, log |-> <<>>, skipped |-> 0]
    /\ halted = FALSE
    /\ calls = [process |-> 0, write |-> 0]
    /\ osEnv \in Environs
    /\ fcall = NoFunc
    /\ prep = NoPrepare

NextRender == \E i \in 1..MaxEnv, secrets \in RenderSecrets : ProcessDoc(i, secrets)

SpecRender == InitRender /\ [][NextRender]_vars

(***************************************************************************)
(* Specification of the pull: one prepared document is rendered with the   *)
(* secrets the secrets manager returns for the collected identifiers       *)
(***************************************************************************)
\* the content the secrets manager holds for an identifier
VaultContent(id) ==
    CASE id = "t/db" -> "pw\n"
      [] id = "testing/jaws/script" -> "#!jaws\nvar.env"
      [] id = "t/keyscript" -> "#!jaws\nfile(\"id_rsa\", \"key\")"
      [] id = "t/self" -> "#!jaws\nunquote(\"#!jaws\")"
      [] id = "t/note" -> "see #!jaws docs"
      [] OTHER -> "v"

\* the secrets the pull command hands to Process: nil when no identifier was
\* collected, else one secret per identifier, its ID the identifier
Fetch(ids) ==
    IF ids = <<>> THEN NilSecrets
    ELSE [nil |-> FALSE,
          items |-> [k \in 1..Len(ids) |-> [ID |-> ids[k], Content |-> VaultContent(ids[k])]]]

PullFiles ==
    {"a.jaws", "v.jaws", "d.jaws", "f.jaws", "fs.jaws", "self.jaws", "note.jaws", "w.jaws"}
        \cup {KFile(i, j) : i \in 1..Len(KFilters), j \in 1..Len(KNames)}
        \cup {"num-" \o f \o ".jaws" : f \in TypedFormats}
        \cup {"mix-" \o f \o ".jaws" : f \in TypedFormats}
        \cup {LFile(k) : k \in 1..Len(MarkerTexts)}

\* the values of os.Environ() of a pull
PullEnvirons == {Environ, <<"JAWS_env=prod">>, <<"JAWS_loop=#!jaws\n${var.loop}">>}

InitPull ==
    /\ callerOpts = DefaultOptions
    /\ Options = callerOpts
    /\ \E f \in PullFiles :
          \E c \in PrepareCall(AddAll(<<>>, <<f>>), <<>>, DefaultOptions) :
              c.err = "" /\ Env = c.Env /\ SecretIDs = c.SecretIDs
    /\ fs = <<>>
    /\ now = 0
    /\ last = [op |-> "Prepare", err |-> "", doc |-> 0, log |-> <<>>, skipped |-> 0]
    /\ halted = FALSE
    /\ calls = [process |-> 0, write |-> 0]
    /\ osEnv \in PullEnvirons
    /\ fcall = NoFunc
    /\ prep = NoPrepare

\* Process of document i with the secrets fetched for the collected identifiers
Pull(i) == ProcessDoc(i, Fetch(SecretIDs))

NextPull == \E i \in 1..MaxEnv : Pull(i)

SpecPull == InitPull /\ [][NextPull]_vars

(***************************************************************************)
(* Specification of the includes: documents are registered and prepared,   *)
(* the nested Prepare calls taken one by one                               *)
(***************************************************************************)
\* the paths the caller registers
IncludeArgs == {"a.jaws", "i.jaws", "c.jaws", "p.jaws", "m.jaws", "b.jaws", "n.jaws"}

\* the caller registers a document while no Prepare call is running
Register(file) == ~prep.active /\ AddEnvConfig(file)

NextInclude ==
    \/ \E file \in IncludeArgs : Register(file)
    \/ PreparePass

SpecInclude == Init /\ [][NextInclude]_vars

\* a Prepare call that is running takes its next step
LiveInclude == SpecInclude /\ WF_vars(prep.active /\ PreparePass)

(***************************************************************************)
(* Specification of the functions: quote and unquote are evaluated in      *)
(* expressions, resolve and CompareStrings are applied to their arguments  *)
(***************************************************************************)
RECURSIVE StringsUpTo(_, _)
StringsUpTo(A, n) ==
    IF n = 0 THEN {""}
    ELSE LET S == StringsUpTo(A, n - 1) IN S \cup {s \o c : s \in S, c \in A}

\* the strings handed to quote and unquote
QuoteArgs == StringsUpTo({"a", " ", "\\", "\n", "\""}, MaxStr)

\* the expressions evaluated: quote(s), unquote(s) and unquote(quote(s))
FuncExprs ==
    {Call("quote", <<Lit(s)>>) : s \in QuoteArgs}
        \cup {Call("unquote", <<Lit(s)>>) : s \in QuoteArgs}
        \cup {Call("unquote", <<Call("quote", <<Lit(s)>>)>>) : s \in QuoteArgs}

\* the names handed to resolve
Hostnames == {"localhost", "example.com", "db.example.com", "a.b.c.example.com", "no host"}

\* the answers of net.LookupIP: an error, or a list of addresses
Lookups ==
    {[err |-> TRUE, addr |-> <<>>],
     [err |-> FALSE, addr |-> <<>>],
     [err |-> FALSE, addr |-> <<[v4 |-> TRUE, s |-> "127.0.0.1"]>>],
     [err |-> FALSE, addr |-> <<[v4 |-> FALSE, s |-> "::1"]>>],
     [err |-> FALSE, addr |-> <<[v4 |-> FALSE, s |-> "::1"], [v4 |-> TRUE, s |-> "127.0.0.1"]>>],
     [err |-> FALSE, addr |-> <<[v4 |-> TRUE, s |-> "10.0.0.1"], [v4 |-> TRUE, s |-> "10.0.0.2"]>>]}

\* the contents handed to CompareStrings
CompareArgs == StringsUpTo({"a", "b", "\n"}, MaxStr)

\* the contents and keys handed to extract
ExtractContents ==
    {"{\"user\": \"u\", \"pw\": \"p\"}", "{\"user\": \"u\"}", "{\"user\": \"\"}", "{}",
     "{\"user\": null}", "{\"user\": \"u\", \"n\": 1}", "{\"user\": \"u\", \"user\": \"w\"}",
     "{\"user\": \"u\"", "[\"user\"]", "user: u\npw: p\n", "pw: p", "plain", ""}

ExtractKeys == {"user", "pw", "n", ""}

\* a call that was not made yet
Pending(fn, args) == [fn |-> fn, args |-> args, res |-> "", err |-> "", done |-> FALSE]

EvalCall ==
    /\ fcall.fn = "Eval" /\ ~fcall.done
    /\ fcall' = [fcall EXCEPT !.res = Eval(fcall.args[1], <<>>).val.s,
                              !.err = Eval(fcall.args[1], <<>>).err,
                              !.done = TRUE]
    /\ UNCHANGED <<Env, SecretIDs, Options, callerOpts, fs, now, last, halted, calls, osEnv, prep>>

ResolveCall ==
    /\ fcall.fn = "resolve" /\ ~fcall.done
    /\ fcall' = [fcall EXCEPT !.res = resolve(fcall.args[1], fcall.args[2]).res,
                              !.err = resolve(fcall.args[1], fcall.args[2]).err,
                              !.done = TRUE]
    /\ UNCHANGED <<Env, SecretIDs, Options, callerOpts, fs, now, last, halted, calls, osEnv, prep>>

CompareCall ==
    /\ fcall.fn = "CompareStrings" /\ ~fcall.done
    /\ fcall' = [fcall EXCEPT
                    !.res = CompareStrings(fcall.args[1], fcall.args[2], fcall.args[3]).isDiff,
                    !.err = CompareStrings(fcall.args[1], fcall.args[2], fcall.args[3]).err,
                    !.done = TRUE]
    /\ UNCHANGED <<Env, SecretIDs, Options, callerOpts, fs, now, last, halted, calls, osEnv, prep>>

ExtractCall ==
    /\ fcall.fn = "extract" /\ ~fcall.done
    /\ fcall' = [fcall EXCEPT !.res = extract(fcall.args[1], fcall.args[2]).res,
                              !.err = extract(fcall.args[1], fcall.args[2]).err,
                              !.done = TRUE]
    /\ UNCHANGED <<Env, SecretIDs, Options, callerOpts, fs, now, last, halted, calls, osEnv, prep>>

InitFuncs ==
    /\ Env = <<>>
    /\ SecretIDs = <<>>
    /\ callerOpts = DefaultOptions
    /\ Options = callerOpts
    /\ fs = <<>>
    /\ now = 0
    /\ last = NoCall
    /\ halted = FALSE
    /\ calls = [process |-> 0, write |-> 0]
    /\ osEnv = Environ
    /\ prep = NoPrepare
    /\ \/ \E expr \in FuncExprs : fcall = Pending("Eval", <<expr>>)
       \/ \E fqdn \in Hostnames, lookup \in Lookups : fcall = Pending("resolve", <<fqdn, lookup>>)
       \/ \E str1 \in CompareArgs, str2 \in CompareArgs, print \in BOOLEAN :
              fcall = Pending("CompareStrings", <<str1, str2, print>>)
       \/ \E content \in ExtractContents, key \in ExtractKeys :
              fcall = Pending("extract", <<content, key>>)

NextFuncs ==
    \/ EvalCall
    \/ ResolveCall
    \/ CompareCall
    \/ ExtractCall

SpecFuncs == InitFuncs /\ [][NextFuncs]_vars

(***************************************************************************)
(* Vocabulary of the properties                                            *)
(***************************************************************************)
\* the file-system events of the most recent Write call
WriteLog == IF last.op = "Write" THEN last.log ELSE <<>>

\* the step is a call of Write
WriteStep == calls'.write = calls.write + 1

\* event k of the log removes or truncates the file at its path
Destroys(k) ==
    \/ WriteLog[k].ev = "remove"
    \/ WriteLog[k].ev = "create" /\ WriteLog[k].arg = "truncate"

\* the document of event k was renamed to a backup earlier in the same Write
BackedUpBefore(k) ==
    \E j \in 1..(k - 1) :
        /\ WriteLog[j].ev = "rename"
        /\ WriteLog[j].doc = WriteLog[k].doc
        /\ WriteLog[j].path = WriteLog[k].path

\* new content was written for the document of event k after that event
WrittenAfter(k) ==
    \E m \in (k + 1)..Len(WriteLog) :
        WriteLog[m].ev = "write" /\ WriteLog[m].doc = WriteLog[k].doc

\* document i is rendered, not yet consumed, and bound to a file path
Rendered(i) == ~Env[i].Reader.nil /\ Env[i].Reader.i = 0 /\ Env[i].OutFile # "-"

\* the output file of document i exists and holds exactly its rendered content
IdenticalOutput(i) ==
    /\ Env[i].OutFile # "-"
    /\ ~Env[i].Reader.nil
    /\ FileExists(fs, Env[i].OutFile)
    /\ fs[AbsPath(Env[i].OutFile)].content = Env[i].Reader.s

\* no document before i is bound to the output path of document i
FirstOnPath(i) == \A j \in 1..(i - 1) : AbsPath(Env[j].OutFile) # AbsPath(Env[i].OutFile)

\* the blocks of a document in render order: labeled groups, then vars blocks
RenderBlocks(e) ==
    [b \in 1..(Len(e.GroupedLabeledVars) + Len(e.GroupedVars)) |->
        IF b <= Len(e.GroupedLabeledVars) THEN e.GroupedLabeledVars[b].TmplVars
        ELSE e.GroupedVars[b - Len(e.GroupedLabeledVars)].TmplVars]

DeclaringBlocks(e, n) == {b \in 1..Len(RenderBlocks(e)) : n \in DOMAIN RenderBlocks(e)[b]}

DeclaredNames(e) == UNION {DOMAIN RenderBlocks(e)[b] : b \in 1..Len(RenderBlocks(e))}

FirstDeclaration(e, n) ==
    RenderBlocks(e)[CHOOSE b \in DeclaringBlocks(e, n) : \A c \in DeclaringBlocks(e, n) : b <= c][n]

\* the number of occurrences of sub in s at or after position i
RECURSIVE CountFrom(_, _, _)
CountFrom(s, sub, i) ==
    LET k == IndexFrom(s, sub, i)
    IN IF k = 0 THEN 0 ELSE 1 + CountFrom(s, sub, k + 1)

\* the number of lines NAME=... in a flat-format content
EntryCount(content, n) == CountFrom("\n" \o content, "\n" \o n \o "=", 1)

FlatFormat(e) ==
    FormatOfExt(IF e.OutFormat # "" THEN "." \o e.OutFormat ELSE Ext(e.OutFile)) = ""

NoDuplicates(S) == \A a, b \in 1..Len(S) : a # b => S[a] # S[b]

AllPrepared == \A i \in 1..Len(Env) : Env[i].Prepared

\* the keys K the process environment sets as JAWS_K
EnvKeys ==
    {SubSeq(osEnv[k], 6, IndexFrom(osEnv[k], "=", 1) - 1) :
        k \in {j \in 1..Len(osEnv) : HasPrefix(osEnv[j], "JAWS_") /\ Contains(osEnv[j], "=")}}

\* the value of the environment variable JAWS_K
EnvValueOf(K) ==
    LET k == CHOOSE j \in 1..Len(osEnv) : HasPrefix(osEnv[j], "JAWS_" \o K \o "=")
    IN SubSeq(osEnv[k], Len("JAWS_" \o K \o "=") + 1, Len(osEnv[k]))

\* the attribute expression is the plain reference root.K
ReadsKey(expr, root) ==
    expr.t = "ref" /\ expr.s = root /\ Len(expr.rel) = 1 /\ expr.rel[1].k = "attr"

\* the content the most recent Process call rendered
Content == Env[last.doc].Reader.s

\* sub occurs in s
Occurs(s, sub) == \E j \in 1..(Len(s) - Len(sub) + 1) : SubSeq(s, j, j + Len(sub) - 1) = sub

\* the content holds the line text
HasLine(content, text) == Occurs("\n" \o content, "\n" \o text \o "\n")

RenderedOK == last.op = "Process" /\ last.err = "" /\ ~halted

\* the format a rendered content of the document e is written in, read off its shape
ShapeOf(e, content) ==
    CASE HasPrefix(content, "{\n") -> "json"
      [] Occurs(content, "[\n\t{\n\t\tname = \"") -> "tfvars"
      [] \E n \in DeclaredNames(e) : Occurs("\n" \o content, "\n" \o n \o ": ") -> "yaml"
      [] \E n \in DeclaredNames(e) : Occurs("\n" \o content, "\n" \o n \o "=") -> "flat"
      [] OTHER -> "none"

\* the format a format name or an extension without its dot stands for
FormatNamed(f) ==
    CASE f \in {"yaml", "yml"} -> "yaml"
      [] f = "json" -> "json"
      [] f = "tfvars" -> "tfvars"
      [] OTHER -> "flat"

\* the part of a file name after its last dot, "" when it has none
Extension(file) ==
    IF \E j \in 1..Len(file) : Char(file, j) = "."
    THEN SubSeq(file, (CHOOSE j \in 1..Len(file) :
                          Char(file, j) = "." /\ \A m \in (j + 1)..Len(file) : Char(file, m) # ".") + 1,
                Len(file))
    ELSE ""

\* the keys the attributes of the document e read under var or secret that the
\* scope built for the call does not declare
UnresolvedKeys(e, secrets, env) ==
    LET ctx == ProcessContext(e, secrets, env)
        reads == UNION {UNION {{Variables(RenderBlocks(e)[b][n])[k] :
                                   k \in 1..Len(Variables(RenderBlocks(e)[b][n]))} :
                               n \in DOMAIN RenderBlocks(e)[b]} :
                        b \in 1..Len(RenderBlocks(e))}
    IN {r.rel[1].name : r \in {q \in reads : /\ q.s \in {LOCALS_KEY, SECRET_KEY}
                                               /\ Len(q.rel) >= 1
                                               /\ q.rel[1].name \notin DOMAIN ctx[q.s]}}

\* the files a config file includes, by absolute path: a file entry as Prepare
\* resolves it, a directory entry as the files SearchDir registers for it
IncludedBy(p) ==
    IF p \notin DOMAIN ConfigDisk THEN {}
    ELSE UNION {LET inc == ConfigDisk[p].include[k]
                    target == IF HasPrefix(inc, "/") THEN inc
                              ELSE DirOf(p) \o "/" \o TrimPrefix(inc, "./")
                IN IF target \in DOMAIN DirDisk
                   THEN {AbsPath(DirDisk[target][j]) :
                            j \in {m \in 1..Len(DirDisk[target]) : Occurs(DirDisk[target][m], ".jaws")}}
                   ELSE {target} : k \in 1..Len(ConfigDisk[p].include)}

\* the files reachable from the set S along includes, S included
RECURSIVE ReachFrom(_)
ReachFrom(S) ==
    LET T == S \cup UNION {IncludedBy(q) : q \in S}
    IN IF T = S THEN S ELSE ReachFrom(T)

\* the include graph reachable from the file p holds a cycle
ReachesCycle(p) == \E q \in ReachFrom({p}) : q \in ReachFrom(IncludedBy(q))

\* every file reachable from p exists and Prepare scans it without an error
ScansClean(p) ==
    \A q \in ReachFrom({p}) :
        /\ q \in DOMAIN ConfigDisk
        /\ ~BlocksBad(ConfigDisk[q].vars)
        /\ ~BlocksBad(ConfigDisk[q].groups)

\* the documents of the list E no Prepare call has scanned yet
Unprepared(E) == {i \in 1..Len(E) : ~E[i].Prepared}

(***************************************************************************)
(* Properties of the writer                                                *)
(***************************************************************************)
\* C1: when the caller passed overwrite=false and unsafeMode=false, a Write
\* that removes or truncates an existing output file and writes new content
\* in its place has renamed that file to its backup name first.
C1_SafeWriteBacksUp ==
    (~callerOpts.Overwrite /\ ~callerOpts.UnsafeMode) =>
        \A k \in 1..Len(WriteLog) : (Destroys(k) /\ WrittenAfter(k)) => BackedUpBefore(k)

\* C2: a Write that directly follows a successful Write which left every output
\* file equal to the rendered content changes nothing on disk and returns no error.
C2_WriterIdempotent ==
    [][(/\ last.op = "Write" /\ last.err = "" /\ ~halted
        /\ \A i \in 1..Len(Env) : IdenticalOutput(i)
        /\ WriteStep)
       => (fs' = fs /\ last'.err = "")]_vars

\* C3: when a Write finds a document unchanged, every later document of the batch
\* that is rendered and whose output file is missing or different is still
\* brought to its rendered content.
C3_NoChangeSkipsOnlyThatDocument ==
    [][WriteStep =>
        \A k \in 1..Len(last'.log) :
            last'.log[k].ev = "nochange" =>
                \A j \in (last'.log[k].doc + 1)..Len(Env) :
                    (Rendered(j) /\ FirstOnPath(j) /\ ~IdenticalOutput(j) /\ Env[j].Reader.s # "")
                        => /\ FileExists(fs', Env[j].OutFile)
                           /\ fs'[AbsPath(Env[j].OutFile)].content = Env[j].Reader.s]_vars

\* C4: when the caller passed overwrite=false and unsafeMode=true, every removal
\* of a differing output file that is then rewritten follows a prompt for that
\* same document which the operator answered with y or yes.
C4_UnsafePromptsEveryDocument ==
    (~callerOpts.Overwrite /\ callerOpts.UnsafeMode) =>
        \A k \in 1..Len(WriteLog) :
            (WriteLog[k].ev = "remove" /\ WrittenAfter(k)) =>
                \E j \in 1..(k - 1) :
                    /\ WriteLog[j].ev = "prompt"
                    /\ WriteLog[j].doc = WriteLog[k].doc
                    /\ WriteLog[j].arg \in {"y", "YES"}

\* C5: after Write has returned, the four fields of EnvConfig.Options equal the
\* values the caller passed to InitEnv.
C5_OptionsImmutable == (last.op = "Write" /\ ~halted) => Options = callerOpts

\* C6: for every value of diff, overwrite and unsafeMode, a Write that reaches a
\* document whose output file exists with content identical to the rendered
\* content leaves that file as it is, performs no rename, remove, create or write
\* for the document, and returns no error.
C6_IdenticalOutputUntouched ==
    [][WriteStep =>
        \A i \in 1..Len(Env) :
            (IdenticalOutput(i) /\ Env[i].Reader.i = 0 /\ FirstOnPath(i)) =>
                /\ FileExists(fs', Env[i].OutFile)
                /\ fs'[AbsPath(Env[i].OutFile)] = fs[AbsPath(Env[i].OutFile)]
                /\ \A k \in 1..Len(last'.log) :
                       last'.log[k].doc = i => last'.log[k].ev = "nochange"
                /\ (\E k \in 1..Len(last'.log) : last'.log[k].doc = i)
                       => (last'.err = "" /\ ~halted')
                /\ (i = 1) => /\ last'.log = <<Event(1, "nochange", Env[1].OutFile, "")>>
                              /\ last'.err = ""
                              /\ fs' = fs]_vars

\* C6 witness: with overwrite=true and no diff, a Write wrote the first document
\* and then found the second document's file unchanged.
C6_Witness ==
    /\ callerOpts.Overwrite /\ ~callerOpts.Diff
    /\ Len(WriteLog) >= 2
    /\ WriteLog[1].doc = 1 /\ WriteLog[1].ev = "create"
    /\ WriteLog[Len(WriteLog)].doc = 2 /\ WriteLog[Len(WriteLog)].ev = "nochange"
    /\ last.err = ""

C8_EmptyContentSkipped ==
    ~halted =>
        \A k \in 1..Len(WriteLog) :
            Env[WriteLog[k].doc].Reader.s = ""
                => WriteLog[k].ev \notin {"create", "rename", "remove", "write"}

\* C27: a Write never fails in the rename that backs an output file up, and
\* every backup it makes lies in the directory of the original under the name
\* <RFC3339 modtime>-<file name of the original>, also for out files with
\* directory components (every directory of the model is writable).
C27_BackupInSameDirectory ==
    last.op = "Write" =>
        \A k \in 1..Len(last.log) :
            /\ ~(last.log[k].ev = "error" /\ last.log[k].arg = "rename")
            /\ last.log[k].ev = "rename" =>
                   /\ DirOf(AbsPath(last.log[k].arg)) = DirOf(AbsPath(last.log[k].path))
                   /\ \E t \in 0..MaxTime :
                          Base(last.log[k].arg) = RFC3339(t) \o "-" \o Base(last.log[k].path)

(***************************************************************************)
(* Properties of the document lifecycle                                    *)
(***************************************************************************)
\* C9: after a successful Process of a flat-format document, every attribute
\* name declared in two or more blocks occurs in the content exactly once, and
\* with the value of its first declaration in render order when that is a string.
C9_DuplicateNameEmittedOnce ==
    (last.op = "Process" /\ last.err = "" /\ ~halted /\ FlatFormat(Env[last.doc])) =>
        \A n \in DeclaredNames(Env[last.doc]) :
            Cardinality(DeclaringBlocks(Env[last.doc], n)) >= 2 =>
                /\ EntryCount(Env[last.doc].Reader.s, n) = 1
                /\ FirstDeclaration(Env[last.doc], n).t = "lit" =>
                       Contains("\n" \o Env[last.doc].Reader.s,
                                "\n" \o n \o "=\"" \o FirstDeclaration(Env[last.doc], n).s \o "\"\n")

\* C10: SecretIDs never holds an identifier twice, and a Prepare call made when
\* every registered document is already prepared returns nil and changes neither
\* SecretIDs nor the document list nor any field of a document.
C10_PrepareIdempotent ==
    [][/\ NoDuplicates(SecretIDs')
       /\ (last'.op = "Prepare" /\ AllPrepared)
              => (SecretIDs' = SecretIDs /\ Env' = Env /\ last'.err = "")]_vars

\* C10 witness: Prepare was called on two prepared documents that reference the
\* same secret and skipped both.
C10_Witness ==
    /\ last.op = "Prepare" /\ last.err = ""
    /\ Len(Env) = 2 /\ last.skipped = 2
    /\ \A i \in 1..2 : Env[i].Prepared /\ Len(Env[i].GroupedVars) > 0
    /\ SecretIDs = <<"t/db">>

\* C11: in every reachable state a document that is rendered (Processed) is
\* prepared: the flags of a document move unprepared, prepared, rendered.
C11_ProcessedImpliesPrepared == \A i \in 1..Len(Env) : Env[i].Processed => Env[i].Prepared

\* C21: a Prepare call over documents whose include graph has no cycle returns,
\* and when every reachable file scans without error it returns nil with every
\* reachable file registered and every document prepared; a call of the chain
\* that scans an unprepared document whose include graph holds a cycle, and meets
\* no error, registers new documents, nests another call and leaves again an
\* unprepared document whose include graph holds a cycle: the chain never returns.
C21_PrepareTerminatesIffAcyclic ==
    /\ (prep.active /\ \A i \in 1..Len(Env) : ~ReachesCycle(AbsPath(Env[i].ConfigFile)))
           ~> ~prep.active
    /\ [][(/\ PreparePass
           /\ ~prep'.active
           /\ \A i \in 1..Len(Env) : /\ ~ReachesCycle(AbsPath(Env[i].ConfigFile))
                                      /\ ScansClean(AbsPath(Env[i].ConfigFile)))
              => /\ last'.err = ""
                 /\ Unprepared(Env') = {}
                 /\ \A i \in 1..Len(Env) :
                        \A q \in ReachFrom({AbsPath(Env[i].ConfigFile)}) :
                            \E j \in 1..Len(Env') : AbsPath(Env'[j].ConfigFile) = q]_vars
    /\ [][(/\ PreparePass
           /\ last'.err = ""
           /\ \E i \in Unprepared(Env) : ReachesCycle(AbsPath(Env[i].ConfigFile)))
              => /\ prep'.active
                 /\ Len(Env') > Len(Env)
                 /\ \E i \in Unprepared(Env') : ReachesCycle(AbsPath(Env'[i].ConfigFile))]_vars

\* C21 witness: p.jaws includes q.jaws and q.jaws includes p.jaws; the third
\* nested call is running and found p.jaws registered anew, unprepared.
C21_Witness ==
    /\ prep.active
    /\ Len(prep.stack) >= 2
    /\ Len(Env) >= 3
    /\ Env[1].ConfigFile = "p.jaws" /\ Env[1].Prepared
    /\ Env[2].ConfigFile = "/w/q.jaws" /\ Env[2].Prepared
    /\ Env[3].ConfigFile = "/w/p.jaws" /\ ~Env[3].Prepared

\* the traversals rooted at secret in the attributes of a prepared document
SecretTraversals(e) ==
    UNION {UNION {{Variables(RenderBlocks(e)[b][n])[k] :
                       k \in {j \in 1..Len(Variables(RenderBlocks(e)[b][n])) :
                                  Variables(RenderBlocks(e)[b][n])[j].s = SECRET_KEY}} :
                  n \in DOMAIN RenderBlocks(e)[b]} :
           b \in 1..Len(RenderBlocks(e))}

\* the identifiers of the secrets a prepared document refers to by attribute access
ReferencedIds(e) ==
    UNION {{SecretIdOf(e.Filter, tr.rel[j].name) :
                j \in {m \in 1..Len(tr.rel) : tr.rel[m].k = "attr"}} : tr \in SecretTraversals(e)}

\* C29: while no Prepare call is running, also after a call that returned an
\* error, the identifier of every secret a document marked Prepared refers to
\* is in SecretIDs.
C29_PreparedIdsCollected ==
    ~prep.active =>
        \A i \in 1..Len(Env) :
            Env[i].Prepared => \A id \in ReferencedIds(Env[i]) : contains(SecretIDs, id)

(***************************************************************************)
(* Properties of the renderer                                              *)
(***************************************************************************)
\* C12: after a successful Process of a flat-format document, every attribute
\* N = var.K whose key K is set in the environment as JAWS_K is rendered with the
\* environment's value, whether or not a locals block declares K; and a document
\* all of whose attributes read such keys renders without error.
C12_EnvironmentOverridesLocals ==
    /\ (RenderedOK /\ FlatFormat(Env[last.doc])) =>
            \A b \in 1..Len(RenderBlocks(Env[last.doc])) :
                \A n \in DOMAIN RenderBlocks(Env[last.doc])[b] :
                    LET expr == RenderBlocks(Env[last.doc])[b][n]
                    IN (ReadsKey(expr, LOCALS_KEY) /\ expr.rel[1].name \in EnvKeys)
                           => HasLine(Content, n \o "=\"" \o EnvValueOf(expr.rel[1].name) \o "\"")
    /\ (last.op = "Process" /\ ~halted
            /\ \A b \in 1..Len(RenderBlocks(Env[last.doc])) :
                   \A n \in DOMAIN RenderBlocks(Env[last.doc])[b] :
                       LET expr == RenderBlocks(Env[last.doc])[b][n]
                       IN ReadsKey(expr, LOCALS_KEY) /\ expr.rel[1].name \in EnvKeys)
           => last.err = ""

\* C12 witness: with JAWS_env=prod in the environment, the document that declares
\* the locals env = "dev" and own = "mine" rendered E and G from the environment
\* and O from the file.
C12_Witness ==
    /\ RenderedOK
    /\ Env[last.doc].ConfigFile = "v.jaws"
    /\ "env" \in EnvKeys
    /\ HasLine(Content, "E=\"prod\"")
    /\ HasLine(Content, "G=\"prod\"")
    /\ HasLine(Content, "O=\"mine\"")

\* C13: a Process call on a prepared document with an attribute that reads a
\* var or secret key the scope does not declare returns an error that names a
\* missing key, and leaves every other document of the batch as it was.
C13_UnresolvedReferenceNamed ==
    [][\A i \in 1..Len(Env), secrets \in SecretArgs :
          (/\ ProcessDoc(i, secrets)
           /\ Env[i].Prepared
           /\ UnresolvedKeys(Env[i], secrets, osEnv) # {})
              => /\ last'.err # ""
                 /\ \E key \in UnresolvedKeys(Env[i], secrets, osEnv) : Occurs(last'.err, key)
                 /\ \A j \in 1..Len(Env) : j # i => Env'[j] = Env[j]]_vars

\* C14: the content a successful Process renders is in the format the format
\* option names when that option is not empty, whatever the out file's extension,
\* and otherwise in the format of the extension: yaml for .yaml and .yml, json
\* for .json, tfvars for .tfvars, the flat env-line format for anything else.
C14_FormatInference ==
    (RenderedOK /\ Content # "") =>
        ShapeOf(Env[last.doc], Content) =
            IF Env[last.doc].OutFormat # "" THEN FormatNamed(Env[last.doc].OutFormat)
            ELSE FormatNamed(Extension(Env[last.doc].OutFile))

\* C14 witness: a document with format = "json" and out = "x.yaml" was rendered as json.
C14_Witness ==
    /\ RenderedOK
    /\ Env[last.doc].OutFormat = "json"
    /\ Env[last.doc].OutFile = "x.yaml"
    /\ ShapeOf(Env[last.doc], Content) = "json"

\* C15: Process of the example document (locals env = "dev", one vars attribute
\* WHATENV_IS_THIS = quote(var.env), filter "testing/jaws/") in flat format with
\* the secret testing/jaws/db = "pw" supplied, and no JAWS_env in the
\* environment, renders the lines WHATENV_IS_THIS="dev" and DB=pw.
C15_ScenarioA ==
    [][(/\ ProcessDoc(1, ScenarioSecrets)
        /\ Env[1].ConfigFile \in ScenarioFiles
        /\ FlatFormat(Env[1])
        /\ "env" \notin EnvKeys)
           => /\ last'.err = ""
              /\ HasLine(Env'[1].Reader.s, "WHATENV_IS_THIS=\"dev\"")
              /\ HasLine(Env'[1].Reader.s, "DB=pw")]_vars

\* C16: a successful Process of a document in yaml format renders every
\* attribute whose value is a string as the line "key: value", the value being
\* the evaluated string with no double quotes put around it.
C16_ScenarioB ==
    [][\A secrets \in RenderSecrets :
          (/\ ProcessDoc(1, secrets)
           /\ last'.err = ""
           /\ FormatNamed(IF Env[1].OutFormat # "" THEN Env[1].OutFormat
                          ELSE Extension(Env[1].OutFile)) = "yaml")
              => \A b \in 1..Len(RenderBlocks(Env[1])) :
                     \A n \in DOMAIN RenderBlocks(Env[1])[b] :
                         LET v == Eval(RenderBlocks(Env[1])[b][n],
                                       ProcessContext(Env[1], secrets, osEnv)).val
                         IN v.ty = "string" => HasLine(Env'[1].Reader.s, n \o ": " \o v.s)]_vars

\* C17: when the secret behind the attribute S holds the script "#!jaws" with
\* the remainder var.env, a Process call renders S with the value var.env has in
\* the document's scope (the local env, or JAWS_env when the environment sets
\* it), with or without quotes around it, and not with the text var.env.
C17_ScenarioD ==
    [][(/\ ProcessDoc(1, ScriptSecrets)
        /\ Env[1].ConfigFile = "d.jaws")
           => LET v == ProcessContext(Env[1], ScriptSecrets, osEnv)[LOCALS_KEY]["env"].s
              IN /\ last'.err = ""
                 /\ ~halted'
                 /\ \/ HasLine(Env'[1].Reader.s, "S=" \o v)
                    \/ HasLine(Env'[1].Reader.s, "S=\"" \o v \o "\"")]_vars

(***************************************************************************)
(* Properties of the pull                                                  *)
(***************************************************************************)
\* C22: when Process is handed, for every identifier Prepare collected, a secret
\* with exactly that identifier, every attribute that reads secret.NAME finds
\* the key NAME in the secret scope, bound to the content of the secret Prepare
\* derived from NAME, and the call returns no error; for upper and lower case
\* names and for filters with '_' or '-'.
C22_CollectorScopeRoundTrip ==
    [][\A i \in 1..Len(Env) :
          (Pull(i) /\ Env[i].Prepared /\ Env[i].Filter # "") =>
              \A b \in 1..Len(RenderBlocks(Env[i])) :
                  \A n \in DOMAIN RenderBlocks(Env[i])[b] :
                      LET expr == RenderBlocks(Env[i])[b][n]
                          scope == ProcessContext(Env[i], Fetch(SecretIDs), osEnv)[SECRET_KEY]
                      IN (/\ ReadsKey(expr, SECRET_KEY)
                          /\ contains(SecretIDs, SecretIdOf(Env[i].Filter, expr.rel[1].name)))
                             => /\ expr.rel[1].name \in DOMAIN scope
                                /\ scope[expr.rel[1].name].s
                                       = VaultContent(SecretIdOf(Env[i].Filter, expr.rel[1].name))
                                /\ last'.err = ""]_vars

\* C23: after a successful Process, a document all of whose attributes are
\* numbers or booleans has the empty content, and the first entry of a json or
\* tfvars content is not preceded by a comma: the attributes that write nothing
\* are not counted.
C23_CountEqualsEntriesWritten ==
    RenderedOK =>
        /\ (/\ Len(RenderBlocks(Env[last.doc])) > 0
            /\ \A b \in 1..Len(RenderBlocks(Env[last.doc])) :
                   \A n \in DOMAIN RenderBlocks(Env[last.doc])[b] :
                       RenderBlocks(Env[last.doc])[b][n].t \in {"num", "bool"})
               => Content = ""
        /\ ~Occurs(Content, "{\n,")
        /\ ~Occurs(Content, "[,")

\* C24: no content a successful Process renders holds the marker of file(); when
\* the call wrote the file id_rsa for the attribute KEY, be it by calling file()
\* in the document or in the script of a secret, the content holds the line
\* KEY_PATH=id_rsa.
C24_FileMarkerNeverRendered ==
    RenderedOK =>
        /\ ~Occurs(Content, FILE_FUNC_SUCCESS)
        /\ FileExists(fs, "id_rsa") => HasLine(Content, "KEY_PATH=id_rsa")

\* C25: a Process call on a flat-format document renders every attribute whose
\* string value holds the interpreter marker #!jaws but does not begin with it
\* as the literal value between double quotes, all its lines kept, and returns
\* no error.
C25_OnlyLeadingMarkerInterpreted ==
    [][\A i \in 1..Len(Env) :
          (Pull(i) /\ Env[i].Prepared /\ FlatFormat(Env[i])) =>
              \A b \in 1..Len(RenderBlocks(Env[i])) :
                  \A n \in DOMAIN RenderBlocks(Env[i])[b] :
                      LET r == Eval(RenderBlocks(Env[i])[b][n],
                                    ProcessContext(Env[i], Fetch(SecretIDs), osEnv))
                      IN (/\ r.err = ""
                          /\ r.val.ty = "string"
                          /\ Occurs(r.val.s, INTERPRETER_SHEBANG)
                          /\ ~HasPrefix(r.val.s, INTERPRETER_SHEBANG))
                             => /\ last'.err = ""
                                /\ ~halted'
                                /\ Occurs("\n" \o Env'[i].Reader.s,
                                          "\n" \o n \o "=\"" \o TrimRightNL(r.val.s) \o "\"\n")]_vars

\* the attributes of document i whose value, with the secrets of the pull,
\* begins with the interpreter marker and whose remainder evaluates, once, to a
\* string that holds the marker again
Reinvoking(i) ==
    {n \in DeclaredNames(Env[i]) :
        LET r == Eval(FirstDeclaration(Env[i], n), ProcessContext(Env[i], Fetch(SecretIDs), osEnv))
        IN /\ r.err = ""
           /\ r.val.ty = "string"
           /\ HasPrefix(r.val.s, INTERPRETER_SHEBANG)
           /\ ParseAttr(AfterFirstLine(r.val.s)).err = ""
           /\ LET once == Eval(ParseAttr(AfterFirstLine(r.val.s)).expr,
                               (LOCALS_KEY :> decodeEnvVars(osEnv, 1)))
              IN /\ once.err = ""
                 /\ once.val.ty = "string"
                 /\ Occurs(once.val.s, INTERPRETER_SHEBANG)}

\* the result of the one evaluation of the remainder of attribute n of document i
OnceEvaluated(i, n) ==
    Eval(ParseAttr(AfterFirstLine(Eval(FirstDeclaration(Env[i], n),
                                       ProcessContext(Env[i], Fetch(SecretIDs), osEnv)).val.s)).expr,
         (LOCALS_KEY :> decodeEnvVars(osEnv, 1))).val.s

C30_RenderingDeterministic ==
    [][\A i \in 1..Len(Env) :
          (/\ Pull(i)
           /\ last.op = "Process" /\ last.doc = i /\ last.err = ""
           /\ ~Env[i].Reader.nil)
          => /\ last'.err = ""
             /\ Env'[i].Reader.s = Env[i].Reader.s
             /\ ~CompareStrings(Env[i].Reader.s, Env'[i].Reader.s, FALSE).isDiff]_vars

(***************************************************************************)
(* Properties of the functions                                             *)
(***************************************************************************)
\* C18: for every string s without a double quote, backslashes and line breaks
\* included, the expression unquote(quote(s)) evaluates to s.
C18_UnquoteQuoteRoundTrip ==
    (/\ fcall.fn = "Eval" /\ fcall.done
     /\ fcall.args[1].s = "unquote"
     /\ fcall.args[1].args[1].t = "call"
     /\ ~Occurs(fcall.args[1].args[1].args[1].s, "\""))
        => (fcall.err = "" /\ fcall.res = fcall.args[1].args[1].args[1].s)

\* C19: resolve applied to localhost or to a well-formed domain name returns no
\* error: its result is an IPv4 address of the lookup's answer, or the name
\* itself when the lookup fails or answers no IPv4 address.
C19_ResolveNeverFails ==
    (fcall.fn = "resolve" /\ fcall.done /\ fcall.args[1] \in {"localhost", "example.com", "db.example.com"}) =>
        /\ fcall.err = ""
        /\ IF fcall.args[2].err \/ \A k \in 1..Len(fcall.args[2].addr) : ~fcall.args[2].addr[k].v4
           THEN fcall.res = fcall.args[1]
           ELSE \E k \in 1..Len(fcall.args[2].addr) :
                    fcall.args[2].addr[k].v4 /\ fcall.res = fcall.args[2].addr[k].s

\* C20: CompareStrings returns no error and the result true exactly when its two
\* contents are not the same string, for both values of print.
C20_ChangeDetectionExact ==
    (fcall.fn = "CompareStrings" /\ fcall.done) =>
        (fcall.err = "" /\ (fcall.res <=> (fcall.args[1] # fcall.args[2])))

\* the key names a member of the object in content whose value is a string
ResolvesToString(content, key) ==
    LET obj == IF isJSON(content) THEN ParseJSON(content) ELSE ParseYAML(content)
    IN obj.ok /\ \E n \in 1..Len(obj.members) : obj.members[n].k = key /\ obj.members[n].ty = "string"

\* C28: a finished call extract(content, key) whose key does not name a member
\* with a string value in the object ended with an error; in particular a key
\* that is absent from the object gives an error and no empty string.
C28_ExtractAbsentKeyFails ==
    (fcall.fn = "extract" /\ fcall.done /\ ~ResolvesToString(fcall.args[1], fcall.args[2]))
        => fcall.err # ""

====
